---------------------------- MODULE Spec2Model ----------------------------
(***************************************************************************)
(* A model of the xflags argument parser: the token normalizer, the        *)
(* dispatch loop of argParser, the environment fallback, the arity check   *)
(* and Command.Parse, run against a handful of concrete command trees;     *)
(* and of the CommandBuilder with the checks of Flag.Flag and Command.Err. *)
(*                                                                         *)
(* A string is a sequence of one-character strings, so that normalize,     *)
(* isSingleDash and isDoubleDash inspect characters as the Go code does.   *)
(***************************************************************************)
EXTENDS Integers, Sequences, FiniteSets, TLC

(***************************************************************************)
(* Bounds of the model.                                                    *)
(***************************************************************************)
MaxArgs == 4

MaxNormArgs == 3

MaxItems == 3
\* the largest count given to NArgs
MaxNArgs == 2
\* the largest number of arguments of one of two concurrent calls
MaxCallArgs == 2
\* the number of bits of the word that bit fields share
WordBits == 4
\* the longest command line of a call whose termination is checked, and of
\* a call that is repeated
MaxLiveArgs == 3

(***************************************************************************)
(* Strings.                                                                *)
(***************************************************************************)
terminator == <<"-", "-">>

sHelpShort == <<"-", "h">>

sHelpLong == <<"-", "-", "h", "e", "l", "p">>

sTrue == <<"t", "r", "u", "e">>

sFalse == <<"f", "a", "l", "s", "e">>

sEmpty == <<>>

sDash == <<"-">>

\* strconv.ParseBool accepts 1, t, T, TRUE, true, True
ParseBoolTrue ==
  { <<"1">>, <<"t">>, <<"T">>, <<"T", "R", "U", "E">>, sTrue,
    <<"T", "r", "u", "e">> }

\* strconv.ParseBool accepts 0, f, F, FALSE, false, False
ParseBoolFalse ==
  { <<"0">>, <<"f">>, <<"F">>, <<"F", "A", "L", "S", "E">>, sFalse,
    <<"F", "a", "l", "s", "e">> }

\* the value of each decimal digit
DigitOf ==
  "0" :> 0 @@ "1" :> 1 @@ "2" :> 2 @@ "3" :> 3 @@ "4" :> 4 @@
  "5" :> 5 @@ "6" :> 6 @@ "7" :> 7 @@ "8" :> 8 @@ "9" :> 9

RECURSIVE digitsValue(_)
digitsValue(s) ==
  IF s = <<>> THEN 0
  ELSE digitsValue(SubSeq(s, 1, Len(s) - 1)) * 10 + DigitOf[s[Len(s)]]

\* strconv.ParseInt(s, 10, 64): an optional sign, then one or more decimal
\* digits (the strings of the model are too short to leave the range)
ParseInt(s) ==
  LET body == IF s # <<>> /\ s[1] \in {"+", "-"} THEN Tail(s) ELSE s
  IN  IF body = <<>> \/ \E i \in 1..Len(body) : body[i] \notin DOMAIN DigitOf
      THEN [ err |-> "ParseInt", n |-> 0 ]
      ELSE [ err |-> "nil",
             n |-> IF s[1] = "-" THEN 0 - digitsValue(body)
                   ELSE digitsValue(body) ]

isSingleDash(arg) ==
  IF Len(arg) < 2 THEN FALSE ELSE arg[1] = "-" /\ arg[2] # "-"

isDoubleDash(arg) ==
  IF Len(arg) < 3 THEN FALSE ELSE arg[1] = "-" /\ arg[2] = "-"

\* isPositional refusing every argument that begins with a dash
isPositionalNoDash(arg) == arg = <<>> \/ arg[1] # "-"

isPositional(arg) == ~isSingleDash(arg) /\ ~isDoubleDash(arg)

\* normalizeArg splitting a double-dash argument at its last '='
normalizeArgLastEq(arg) ==
  IF isSingleDash(arg)
  THEN LET rest == SubSeq(arg, 3, Len(arg))
       IN  IF Len(rest) > 0
           THEN << SubSeq(arg, 1, 2),
                   IF rest[1] = "=" THEN Tail(rest) ELSE rest >>
           ELSE << SubSeq(arg, 1, 2) >>
  ELSE IF isDoubleDash(arg)
  THEN LET eqs == { i \in 4..Len(arg) : arg[i] = "=" }
       IN  IF eqs = {}
           THEN << arg >>
           ELSE LET i == CHOOSE j \in eqs : \A k \in eqs : j >= k
                IN  << SubSeq(arg, 1, i - 1), SubSeq(arg, i + 1, Len(arg)) >>
  ELSE << arg >>

\* normalizeArg without the continue: a bare -x is followed by an empty value
normalizeArgNoContinue(arg) ==
  IF isSingleDash(arg)
  THEN LET rest == SubSeq(arg, 3, Len(arg))
       IN  << SubSeq(arg, 1, 2),
              IF Len(rest) > 0 /\ rest[1] = "=" THEN Tail(rest) ELSE rest >>
  ELSE IF isDoubleDash(arg)
  THEN LET eqs == { i \in 4..Len(arg) : arg[i] = "=" }
       IN  IF eqs = {}
           THEN << arg >>
           ELSE LET i == CHOOSE j \in eqs : \A k \in eqs : j <= k
                IN  << SubSeq(arg, 1, i - 1), SubSeq(arg, i + 1, Len(arg)) >>
  ELSE << arg >>

\* the tokens one argument is split into (the body of normalize's loop)
normalizeArg(arg) ==
  IF isSingleDash(arg)
  THEN LET rest == SubSeq(arg, 3, Len(arg))
       IN  IF Len(rest) > 0
           THEN << SubSeq(arg, 1, 2),
                   IF rest[1] = "=" THEN Tail(rest) ELSE rest >>
           ELSE << SubSeq(arg, 1, 2) >>
  ELSE IF isDoubleDash(arg)
  THEN LET eqs == { i \in 4..Len(arg) : arg[i] = "=" }
       IN  IF eqs = {}
           THEN << arg >>
           ELSE LET i == CHOOSE j \in eqs : \A k \in eqs : j <= k
                IN  << SubSeq(arg, 1, i - 1), SubSeq(arg, i + 1, Len(arg)) >>
  ELSE << arg >>

\* normalize going on to split the arguments after the terminator
RECURSIVE normalizeSplitsTail(_, _)
normalizeSplitsTail(args, withTerminator) ==
  IF args = <<>> THEN <<>>
  ELSE IF withTerminator /\ Head(args) = terminator
  THEN << terminator >> \o normalizeSplitsTail(Tail(args), FALSE)
  ELSE normalizeArg(Head(args)) \o
       normalizeSplitsTail(Tail(args), withTerminator)

RECURSIVE normalize(_, _)
normalize(args, withTerminator) ==
  IF args = <<>> THEN <<>>
  ELSE IF withTerminator /\ Head(args) = terminator THEN args
  ELSE normalizeArg(Head(args)) \o normalize(Tail(args), withTerminator)


(***************************************************************************)
(* The command trees the parser is run against.  A flag or a command is    *)
(* identified by a string that stands for the pointer to its descriptor.   *)
(***************************************************************************)
defaultMinNArgs == 0

defaultMaxNArgs == 1

nFoo == <<"f", "o", "o">>

nBar == <<"b", "a", "r">>

nBaz == <<"b", "a", "z">>

nQux == <<"q", "u", "x">>

nXa == <<"x", "a">>

nXb == <<"x", "b">>

nXc == <<"x", "c">>

nVv == <<"v", "v">>

nHelp == <<"h", "e", "l", "p">>

nFlag == <<"f", "l", "a", "g">>

nOne == <<"o", "n", "e">>

nName == <<"n", "a", "m", "e">>

nFooNegative == <<"f", "o", "o", "-", "n", "e", "g", "a", "t", "i", "v", "e">>

sMinusOne == <<"-", "1">>

\* a nil ValidateFunc; Choices gives the set of accepted strings
ValidateNil == [ nil |-> TRUE, choices |-> {} ]

\* Var: a one-character name becomes the short name
Var(kind, name) ==
  [ Name |-> IF Len(name) = 1 THEN <<>> ELSE name,
    ShortName |-> IF Len(name) = 1 THEN name ELSE <<>>,
    Positional |-> FALSE,
    MinCount |-> defaultMinNArgs,
    MaxCount |-> defaultMaxNArgs,
    EnvVar |-> "",
    Validate |-> ValidateNil,
    Value |-> kind ]

Bool(name) == Var("bool", name)

String(name) == Var("string", name)

Int64(name) == Var("int64", name)

Strings(name) == [Var("strings", name) EXCEPT !.MinCount = 0, !.MaxCount = 0]

BitField(name) == Var("bitfield", name)

ShortName(f, name) == [f EXCEPT !.ShortName = name]

Positional(f) == [f EXCEPT !.Positional = TRUE]

NArgs(f, min, max) == [f EXCEPT !.MinCount = min, !.MaxCount = max]

Required(f) == NArgs(f, 1, 1)

Env(f, name) == [f EXCEPT !.EnvVar = name]

\* Choices: a ValidateFunc that accepts the given strings
Choices(f, elems) ==
  [f EXCEPT !.Validate = [ nil |-> FALSE, choices |-> elems ]]

Flags ==
  \* TestTerminator
  "test.foo" :> String(nFoo) @@
  "test.bar" :> Bool(nBar) @@
  \* nested subcommands a -> b -> c, one boolean flag each
  "a.xa" :> Bool(nXa) @@
  "b.xb" :> Bool(nXb) @@
  "c.xc" :> Bool(nXc) @@
  \* TestPositionalFlags, with a boolean flag -v
  "pos.foo" :> Required(Positional(String(nFoo))) @@
  "pos.baz" :> NArgs(Positional(Strings(nBaz)), 2, 2) @@
  "pos.qux" :> NArgs(Positional(Strings(nQux)), 0, 0) @@
  "pos.v" :> Bool(<<"v">>) @@
  \* a required flag with an environment variable, and a boolean flag
  "req.foo" :> Env(Required(ShortName(String(nFoo), <<"f">>)), "FOO") @@
  "req.bar" :> Bool(nBar) @@
  \* a command and its subcommand declaring a flag of the same name; the
  \* subcommand declares its own help flag
  "app.vv" :> Bool(nVv) @@
  "run.vv" :> Env(Bool(nVv), "VV") @@
  "run.help" :> ShortName(Bool(nHelp), <<"h">>) @@
  \* TestBool and TestInt64: one boolean and one integer flag
  "num.flag" :> ShortName(Bool(nFlag), <<"f">>) @@
  "num.neg" :> Int64(nFooNegative) @@
  \* a command with a flag bound to the environment, and its subcommand
  \* built WithTerminator
  "top.foo" :> Env(String(nFoo), "FOO") @@
  "sub.bar" :> Bool(nBar) @@
  \* a flag that Flag.Flag refuses: a short name of two characters
  "bad.ab" :> ShortName(Bool(nBar), <<"a", "b">>) @@
  \* TestPosFlagOrdering: an unbounded positional flag that is required
  "ord.one" :> NArgs(Positional(String(nOne)), 1, 0) @@
  \* TestFlagChoices, the flags bound to the environment as well
  "cho.foo" :> Env(Choices(String(nFoo), { nBar, nBaz }), "FOO") @@
  "cho.qux" :> Env(Choices(String(nQux), { sTrue }), "VV") @@
  \* two positional flags, one with a long name and one with a short name
  "nm.foo" :> Positional(String(nFoo)) @@
  "nm.q" :> Positional(String(<<"q">>)) @@
  \* TestBitField: three bit fields of one word
  "bit.foo" :> BitField(nFoo) @@
  "bit.bar" :> BitField(nBar) @@
  "bit.baz" :> BitField(nBaz) @@
  \* TestStringSlice, the slice given a default
  "sl.foo" :> Strings(nFoo) @@
  "sl.v" :> Bool(<<"v">>) @@
  \* the flag of a subcommand whose root is built WithTerminator
  "in.foo" :> String(nFoo) @@
  \* a flag with a short name only and a flag with a long name only
  "sn.c" :> Bool(<<"c">>) @@
  "sn.name" :> Bool(nName) @@
  \* a boolean flag of a command and a positional flag of its subcommand
  \* that have the same name
  "par.foo" :> Bool(nFoo) @@
  "kid.foo" :> Required(Positional(String(nFoo)))

FlagIds == DOMAIN Flags

\* the bitFieldValue of each bit field: the word it points to and its mask,
\* and the default its constructor is given
bitFieldValues ==
  "bit.foo" :> [ p |-> "bit.v", mask |-> 1, value |-> FALSE ] @@
  "bit.bar" :> [ p |-> "bit.v", mask |-> 2, value |-> FALSE ] @@
  "bit.baz" :> [ p |-> "bit.v", mask |-> 4, value |-> TRUE ]

\* the bit fields in the order their constructors are called
bitFieldOrder == << "bit.foo", "bit.bar", "bit.baz" >>

\* the words bit fields point to
WordIds == { bitFieldValues[f].p : f \in DOMAIN bitFieldValues }

\* the default a Strings constructor is given
stringSliceDefault(f) == IF f = "sl.foo" THEN << nQux >> ELSE <<>>

NewCommand(name, parent, withTerminator, flags, subcommands) ==
  [ Parent |-> parent,
    Name |-> name,
    WithTerminator |-> withTerminator,
    FlagGroups |-> << flags >>,
    Subcommands |-> subcommands ]

Commands ==
  "test" :> NewCommand(<<"t", "e", "s", "t">>, "nil", TRUE,
                       << "test.foo", "test.bar" >>, <<>>) @@
  "a" :> NewCommand(<<"a">>, "nil", FALSE, << "a.xa" >>, << "b" >>) @@
  "b" :> NewCommand(<<"b">>, "a", FALSE, << "b.xb" >>, << "c" >>) @@
  "c" :> NewCommand(<<"c">>, "b", FALSE, << "c.xc" >>, <<>>) @@
  "pos" :> NewCommand(<<"p", "o", "s">>, "nil", FALSE,
                      << "pos.foo", "pos.v", "pos.baz", "pos.qux" >>, <<>>) @@
  "req" :> NewCommand(<<"r", "e", "q">>, "nil", FALSE,
                      << "req.foo", "req.bar" >>, <<>>) @@
  "app" :> NewCommand(<<"a", "p", "p">>, "nil", FALSE,
                      << "app.vv" >>, << "run" >>) @@
  "run" :> NewCommand(<<"r", "u", "n">>, "app", FALSE,
                      << "run.vv", "run.help" >>, <<>>) @@
  "num" :> NewCommand(<<"n", "u", "m">>, "nil", FALSE,
                      << "num.flag", "num.neg" >>, <<>>) @@
  "top" :> NewCommand(<<"t", "o", "p">>, "nil", FALSE,
                      << "top.foo" >>, << "sub" >>) @@
  "sub" :> NewCommand(<<"s", "u", "b">>, "top", TRUE, << "sub.bar" >>,
                      <<>>) @@
  "cho" :> NewCommand(<<"c", "h", "o">>, "nil", FALSE,
                      << "cho.foo", "cho.qux" >>, <<>>) @@
  "nm" :> NewCommand(<<"n", "m">>, "nil", FALSE, << "nm.foo", "nm.q" >>,
                     <<>>) @@
  "bit" :> NewCommand(<<"b", "i", "t">>, "nil", FALSE,
                      << "bit.foo", "bit.bar", "bit.baz" >>, <<>>) @@
  "sl" :> NewCommand(<<"s", "l">>, "nil", FALSE, << "sl.foo", "sl.v" >>,
                     <<>>) @@
  \* a command with the subcommands x and y, x with the subcommand z
  "fam" :> NewCommand(<<"f", "a", "m">>, "nil", FALSE, <<>>,
                      << "fam.x", "fam.y" >>) @@
  "fam.x" :> NewCommand(<<"x">>, "fam", FALSE, <<>>, << "fam.z" >>) @@
  "fam.y" :> NewCommand(<<"y">>, "fam", FALSE, <<>>, <<>>) @@
  "fam.z" :> NewCommand(<<"z">>, "fam.x", FALSE, <<>>, <<>>) @@
  \* a command built WithTerminator and its subcommand built without
  "out" :> NewCommand(<<"o", "u", "t">>, "nil", TRUE, <<>>, << "in" >>) @@
  "in" :> NewCommand(<<"i", "n">>, "out", FALSE, << "in.foo" >>, <<>>) @@
  "sn" :> NewCommand(<<"s", "n">>, "nil", FALSE, << "sn.c", "sn.name" >>,
                     <<>>) @@
  "par" :> NewCommand(<<"p", "a", "r">>, "nil", FALSE, << "par.foo" >>,
                      << "kid" >>) @@
  "kid" :> NewCommand(<<"k", "i", "d">>, "par", FALSE, << "kid.foo" >>,
                      <<>>)

CommandIds == DOMAIN Commands

\* the commands Parse is called on; the command of the bit fields is
\* parsed with the shared word starting from any value
Roots == { c \in CommandIds : Commands[c].Parent = "nil" } \ { "bit" }

\* the arguments each command line is drawn from
Tokens(root) ==
  CASE root = "test" ->
         { <<"-", "-">> \o nFoo, <<"x">>, <<"-", "-">> \o nBar, terminator,
           <<"-", "-">> \o nBaz \o <<"=">> \o nQux,
           <<"-", "-">> \o nBar \o <<"=">> \o terminator,
           sEmpty, sDash, sHelpShort }
    [] root = "a" ->
         { <<"b">>, <<"c">>, <<"-", "-">> \o nXa, <<"-", "-">> \o nXb,
           <<"-", "-">> \o nXc, sHelpShort }
    [] root = "pos" ->
         { <<"o", "n", "e">>, <<"t", "w", "o">>, <<"-", "v">>, sDash,
           terminator }
    [] root = "req" ->
         { <<"-", "-">> \o nFoo, <<"-", "f">>, <<"x">>,
           <<"-", "-">> \o nBar, sHelpShort }
    [] root = "app" ->
         { <<"-", "-">> \o nVv, <<"r", "u", "n">>, sHelpShort, sHelpLong }
    [] root = "num" ->
         { <<"-", "-">> \o nFlag \o <<"=">> \o sFalse,
           <<"-", "f", "=">> \o sFalse,
           <<"-", "-">> \o nFooNegative,
           <<"-", "-">> \o nFooNegative \o <<"=">> \o sMinusOne,
           sMinusOne, <<"1">>, sDash }
    [] root = "top" ->
         { <<"s", "u", "b">>, terminator, <<"-", "-", "x", "=", "1">>,
           <<"-", "-">> \o nFoo, <<"x">> }
    [] root = "cho" ->
         { <<"-", "-">> \o nFoo \o <<"=">> \o nBar,
           <<"-", "-">> \o nFoo \o <<"=">> \o nBaz,
           <<"-", "-">> \o nFoo \o <<"=", "b", "a">>,
           <<"-", "-">> \o nFoo \o <<"=">> \o nBar \o <<"r">> }
    [] root = "nm" ->
         { <<"-", "-">> \o nFoo, <<"-", "q">>, <<"x">> }
    [] root = "bit" ->
         { <<"-", "-">> \o nFoo, <<"-", "-">> \o nBar,
           <<"-", "-">> \o nBaz }
    [] root = "sl" ->
         { <<"-", "-">> \o nFoo, nBaz, nQux, <<"-", "v">> }
    [] root = "fam" ->
         { <<"x">>, <<"y">>, <<"z">> }
    [] root = "sn" ->
         { <<"-", "c">>, <<"-", "-", "c">>, <<"-", "-">> \o nName,
           <<"-">> \o nName }
    [] root = "par" ->
         { <<"-", "-">> \o nFoo, <<"k", "i", "d">>, <<"x">> }
    [] root = "out" ->
         { <<"i", "n">>, terminator, <<"-", "-">> \o nFoo,
           <<"-", "-">> \o nFoo \o <<"=", "x">> }

\* the process environments: a variable is present or absent
Environments ==
  { << >>, [ v \in {"FOO", "VV"} |-> IF v = "FOO" THEN <<"e">> ELSE sTrue ] }

\* the arguments of TestNormalize, and a few more with a second '=', an
\* empty name and a value that begins with a dash
NormTokens ==
  LET x == <<"x">>
      Var_ == <<"V", "a", "r">>
      eq == <<"=">>
  IN  { sDash \o x, sDash \o x \o Var_, sDash \o x \o eq \o Var_,
        sDash \o x \o eq,
        terminator \o x, terminator \o x \o Var_,
        terminator \o x \o eq \o Var_, terminator \o x \o eq,
        terminator \o nFoo, terminator \o nFoo \o eq \o nBar,
        terminator \o nFoo \o eq,
        sEmpty, sDash, terminator,
        Var_, terminator \o x \o eq \o Var_ \o eq, terminator \o eq \o x,
        sDash \o x \o eq \o eq, terminator \o x \o eq \o sDash \o x \o Var_ }

\* the commands normalize is run for: one built WithTerminator, one without
NormRoots == { "test", "req" }

(***************************************************************************)
(* Building a command.  An error of the builder is its message, "nil" is   *)
(* no error.                                                               *)
(***************************************************************************)
\* Flag.Flag refusing every MinCount above MaxCount
FlagFlagBounded(flag) ==
  IF flag.Name # <<>> /\ flag.Name[1] = "-"
  THEN "invalid flag name"
  ELSE IF flag.Value = "nil"
  THEN "value cannot be nil"
  ELSE IF Len(flag.ShortName) > 1
  THEN "short name must be one character in length"
  ELSE IF \/ flag.MinCount < 0
          \/ flag.MaxCount < 0
          \/ flag.MinCount > flag.MaxCount
  THEN "invalid NArgs"
  ELSE "nil"

\* Flag.Flag: the checks of one flag
FlagFlag(flag) ==
  IF flag.Name # <<>> /\ flag.Name[1] = "-"
  THEN "invalid flag name"
  ELSE IF flag.Value = "nil"
  THEN "value cannot be nil"
  ELSE IF Len(flag.ShortName) > 1
  THEN "short name must be one character in length"
  ELSE IF \/ flag.MinCount < 0
          \/ flag.MaxCount < 0
          \/ flag.MaxCount > 0 /\ flag.MinCount > flag.MaxCount
  THEN "invalid NArgs"
  ELSE "nil"

\* Command.Err without the check of positional flags against subcommands
RECURSIVE rangeErrNoSubcommands(_, _, _, _)
rangeErrNoSubcommands(c, flags, flagsByName, hasUnboundedPositional) ==
  IF flags = <<>> THEN "nil"
  ELSE LET flag == Flags[Head(flags)]
           long == <<"-", "-">> \o flag.Name
           short == <<"-">> \o flag.ShortName
           keys == IF flag.Name # <<>> THEN flagsByName \cup { long }
                   ELSE flagsByName
       IN  IF flag.Positional /\ hasUnboundedPositional
           THEN "positional arguments cannot follow unbounded positional arguments"
           ELSE IF flag.Name # <<>> /\ long \in flagsByName
           THEN "flag already declared"
           ELSE IF flag.ShortName # <<>> /\ short \in keys
           THEN "flag already declared"
           ELSE rangeErrNoSubcommands(
                  c, Tail(flags),
                  IF flag.ShortName # <<>> THEN keys \cup { short } ELSE keys,
                  hasUnboundedPositional
                    \/ (flag.Positional /\ flag.MaxCount = 0))

\* Command.Err taking a positional flag for unbounded only when its
\* MinCount is 0 as well
RECURSIVE rangeErrUnboundedOptional(_, _, _, _)
rangeErrUnboundedOptional(c, flags, flagsByName, hasUnboundedPositional) ==
  IF flags = <<>> THEN "nil"
  ELSE LET flag == Flags[Head(flags)]
           long == <<"-", "-">> \o flag.Name
           short == <<"-">> \o flag.ShortName
           keys == IF flag.Name # <<>> THEN flagsByName \cup { long }
                   ELSE flagsByName
       IN  IF flag.Positional /\ Len(c.Subcommands) > 0
           THEN "cannot specify both subcommands and positional arguments"
           ELSE IF flag.Positional /\ hasUnboundedPositional
           THEN "positional arguments cannot follow unbounded positional arguments"
           ELSE IF flag.Name # <<>> /\ long \in flagsByName
           THEN "flag already declared"
           ELSE IF flag.ShortName # <<>> /\ short \in keys
           THEN "flag already declared"
           ELSE rangeErrUnboundedOptional(
                  c, Tail(flags),
                  IF flag.ShortName # <<>> THEN keys \cup { short } ELSE keys,
                  hasUnboundedPositional
                    \/ (/\ flag.Positional
                        /\ flag.MaxCount = 0
                        /\ flag.MinCount = 0))

\* Command.Err without the check of the short names
RECURSIVE rangeErrLongNames(_, _, _, _)
rangeErrLongNames(c, flags, flagsByName, hasUnboundedPositional) ==
  IF flags = <<>> THEN "nil"
  ELSE LET flag == Flags[Head(flags)]
           long == <<"-", "-">> \o flag.Name
       IN  IF flag.Positional /\ Len(c.Subcommands) > 0
           THEN "cannot specify both subcommands and positional arguments"
           ELSE IF flag.Positional /\ hasUnboundedPositional
           THEN "positional arguments cannot follow unbounded positional arguments"
           ELSE IF flag.Name # <<>> /\ long \in flagsByName
           THEN "flag already declared"
           ELSE rangeErrLongNames(
                  c, Tail(flags),
                  IF flag.Name # <<>> THEN flagsByName \cup { long }
                  ELSE flagsByName,
                  hasUnboundedPositional
                    \/ (flag.Positional /\ flag.MaxCount = 0))

\* the loop of Command.Err over the flags of command c, in order
RECURSIVE rangeErr(_, _, _, _)
rangeErr(c, flags, flagsByName, hasUnboundedPositional) ==
  IF flags = <<>> THEN "nil"
  ELSE LET flag == Flags[Head(flags)]
           long == <<"-", "-">> \o flag.Name
           short == <<"-">> \o flag.ShortName
           keys == IF flag.Name # <<>> THEN flagsByName \cup { long }
                   ELSE flagsByName
       IN  IF flag.Positional /\ Len(c.Subcommands) > 0
           THEN "cannot specify both subcommands and positional arguments"
           ELSE IF flag.Positional /\ hasUnboundedPositional
           THEN "positional arguments cannot follow unbounded positional arguments"
           ELSE IF flag.Name # <<>> /\ long \in flagsByName
           THEN "flag already declared"
           ELSE IF flag.ShortName # <<>> /\ short \in keys
           THEN "flag already declared"
           ELSE rangeErr(c, Tail(flags),
                         IF flag.ShortName # <<>> THEN keys \cup { short }
                         ELSE keys,
                         hasUnboundedPositional
                           \/ (flag.Positional /\ flag.MaxCount = 0))

\* the flags of all the flag groups, in order
RECURSIVE concat(_)
concat(groups) ==
  IF groups = <<>> THEN <<>> ELSE Head(groups) \o concat(Tail(groups))

\* Command.Err: the first error in the configuration of command c
CommandErr(c) == rangeErr(c, concat(c.FlagGroups), {}, FALSE)

\* Command.Command
CommandCommand(c) ==
  IF CommandErr(c) # "nil"
  THEN [ cmd |-> "nil", err |-> CommandErr(c) ]
  ELSE [ cmd |-> c, err |-> "nil" ]

\* FlagBuilder.Flag: the checks run on a copy of the flag
FlagBuilderFlag(fb_) ==
  LET flag == fb_.flag
  IN  IF FlagFlag(flag) # "nil"
      THEN [ flag |-> "nil", err |-> FlagFlag(flag) ]
      ELSE [ flag |-> flag, err |-> "nil" ]

\* CommandBuilder.error: the first error is kept
builderError(b_, e) == IF b_.err # "nil" THEN b_ ELSE [b_ EXCEPT !.err = e]

\* the loop of Flags and of FlagGroup: the flags are checked and appended
\* to the group numbered g until one fails
RECURSIVE appendFlags(_, _, _)
appendFlags(b_, g, flags) ==
  IF flags = <<>> THEN b_
  ELSE IF FlagFlag(Flags[Head(flags)]) # "nil"
  THEN builderError(b_, FlagFlag(Flags[Head(flags)]))
  ELSE appendFlags([b_ EXCEPT !.cmd.FlagGroups[g] = Append(@, Head(flags))],
                   g, Tail(flags))

\* CommandBuilder.Flags
BuilderFlags(b_, flags) == appendFlags(b_, 1, flags)

\* CommandBuilder.FlagGroup: the group is added only when all its flags pass
BuilderFlagGroup(b_, flags) ==
  LET n == Len(b_.cmd.FlagGroups) + 1
      r == appendFlags([b_ EXCEPT !.cmd.FlagGroups = Append(@, <<>>)],
                       n, flags)
  IN  IF \E i \in 1..Len(flags) : FlagFlag(Flags[flags[i]]) # "nil"
      THEN builderError(b_, r.err)
      ELSE r

\* CommandBuilder.Subcommands: each command is checked, given its parent
\* and appended until one fails
RECURSIVE BuilderSubcommands(_, _)
BuilderSubcommands(b_, commands) ==
  IF commands = <<>> THEN b_
  ELSE LET r == CommandCommand(Commands[Head(commands)])
       IN  IF r.err # "nil" THEN builderError(b_, r.err)
           ELSE BuilderSubcommands(
                  [b_ EXCEPT !.cmd.Subcommands =
                     Append(@, [r.cmd EXCEPT !.Parent = b_.cmd.Name])],
                  Tail(commands))

\* CommandBuilder.WithTerminator
BuilderWithTerminator(b_) == [b_ EXCEPT !.cmd.WithTerminator = TRUE]

\* NewCommand as the builder starts from it: one empty flag group
newCommandBuilder ==
  [ cmd |-> NewCommand(<<"n", "e", "w">>, "nil", FALSE, <<>>, <<>>),
    err |-> "nil" ]

\* CommandBuilder.Command
BuilderCommand(b_) ==
  IF b_.err # "nil" THEN [ cmd |-> "nil", err |-> b_.err ]
  ELSE CommandCommand(b_.cmd)

\* CommandBuilder.Subcommands on builders that are held by reference:
\* h gives the builder of each name, the commands are added to builder x
RECURSIVE SubcommandsOf(_, _, _)
SubcommandsOf(h, x, commands) ==
  IF commands = <<>> THEN h
  ELSE LET r == BuilderCommand(h[Head(commands)])
       IN  IF r.err # "nil"
           THEN [h EXCEPT ![x] = builderError(@, r.err)]
           ELSE SubcommandsOf(
                  [h EXCEPT ![Head(commands)].cmd.Parent = x,
                            ![x].cmd.Subcommands = Append(@, Head(commands))],
                  x, Tail(commands))

\* TestCommandLineage: the builders a, b and c
BuilderIds == { "a", "b", "c" }

newBuilders ==
  [ x \in BuilderIds |->
      [ cmd |-> NewCommand(<< x >>, "nil", FALSE, <<>>, <<>>),
        err |-> "nil" ] ]

\* the flags handed to the builders of the tree
LineagePool == { "pos.foo", "test.bar", "req.foo" }

\* the flags and the commands handed to the builder
FlagPool ==
  { "pos.foo", "pos.baz", "pos.qux", "ord.one", "test.bar", "req.foo",
    "num.flag", "bad.ab" }

CommandPool == { "c", "run" }

(***************************************************************************)
(* Errors.                                                                 *)
(***************************************************************************)
NoErr ==
  [ kind |-> "nil", Text |-> "", Err |-> "nil", Cmd |-> "nil",
    Flag |-> "nil", Arg |-> <<>> ]

HelpError(cmd) == [ NoErr EXCEPT !.kind = "HelpError", !.Cmd = cmd ]

wrapArgErr(err, cmd, flag, arg) ==
  [ kind |-> "ArgumentError", Text |-> "", Err |-> err, Cmd |-> cmd,
    Flag |-> flag, Arg |-> arg ]

newArgErr(cmd, flag, arg, text) ==
  [ wrapArgErr("nil", cmd, flag, arg) EXCEPT !.Text = text ]

(***************************************************************************)
(* Values.  mem maps each flag's Value to the variable it is bound to; log *)
(* is the sequence of calls of Value.Set, with the caller of each.         *)
(***************************************************************************)
isBoolValue(f) == Flags[f].Value \in { "bool", "bitfield" }

\* a | b and a &^ b
RECURSIVE bitOr(_, _)
bitOr(a, b) ==
  IF a = 0 THEN b
  ELSE IF b = 0 THEN a
  ELSE (IF a % 2 = 1 \/ b % 2 = 1 THEN 1 ELSE 0)
         + 2 * bitOr(a \div 2, b \div 2)

RECURSIVE bitAndNot(_, _)
bitAndNot(a, b) ==
  IF a = 0 THEN 0
  ELSE (IF a % 2 = 1 /\ b % 2 = 0 THEN 1 ELSE 0)
         + 2 * bitAndNot(a \div 2, b \div 2)

\* bitFieldValue.set storing the mask or zero in the word
bitFieldValueAssign(w, mask, val) == IF val THEN mask ELSE 0

\* bitFieldValue.set
bitFieldValueSet(w, mask, val) ==
  IF val THEN bitOr(w, mask) ELSE bitAndNot(w, mask)

\* newBitFieldValue of the first n bit fields, on a word holding w
RECURSIVE newBitFieldValues(_, _)
newBitFieldValues(w, n) ==
  IF n = 0 THEN w
  ELSE LET b_ == bitFieldValues[bitFieldOrder[n]]
       IN  bitFieldValueSet(newBitFieldValues(w, n - 1), b_.mask, b_.value)

\* the variables before the constructors of the bit fields are called, the
\* words holding w
declaredValues(w) ==
  [ mem |-> [ f \in (FlagIds \ DOMAIN bitFieldValues) \cup WordIds |->
                CASE f \in WordIds -> w
                  [] Flags[f].Value = "bool" -> FALSE
                  [] Flags[f].Value = "string" -> <<>>
                  [] Flags[f].Value = "int64" -> 0
                  [] Flags[f].Value = "strings" ->
                       [ p |-> stringSliceDefault(f), hot |-> FALSE ] ],
    log |-> <<>> ]

\* the variables as the flag constructors leave them
newValues == declaredValues(newBitFieldValues(0, Len(bitFieldOrder)))

\* stringSliceValue.Set appending to the slice as it is
stringSliceValueAppend(x, s) == [ p |-> Append(x.p, s), hot |-> TRUE ]

\* stringSliceValue.Set: the first call replaces the slice
stringSliceValueSet(x, s) ==
  [ p |-> Append(IF x.hot THEN x.p ELSE <<>>, s), hot |-> TRUE ]

\* Value.Set of boolValue, bitFieldValue, int64Value, stringValue and
\* stringSliceValue
ValueSet(f, mem, s) ==
  CASE Flags[f].Value = "bitfield" ->
         LET b_ == bitFieldValues[f]
         IN  IF s \in ParseBoolTrue
             THEN [ err |-> "nil",
                    mem |-> [mem EXCEPT ![b_.p] =
                               bitFieldValueSet(@, b_.mask, TRUE)] ]
             ELSE IF s \in ParseBoolFalse
             THEN [ err |-> "nil",
                    mem |-> [mem EXCEPT ![b_.p] =
                               bitFieldValueSet(@, b_.mask, FALSE)] ]
             ELSE [ err |-> "ParseBool", mem |-> mem ]
    [] Flags[f].Value = "bool" ->
         IF s \in ParseBoolTrue
         THEN [ err |-> "nil", mem |-> [mem EXCEPT ![f] = TRUE] ]
         ELSE IF s \in ParseBoolFalse
         THEN [ err |-> "nil", mem |-> [mem EXCEPT ![f] = FALSE] ]
         ELSE [ err |-> "ParseBool", mem |-> mem ]
    [] Flags[f].Value = "int64" ->
         IF ParseInt(s).err # "nil"
         THEN [ err |-> ParseInt(s).err, mem |-> mem ]
         ELSE [ err |-> "nil", mem |-> [mem EXCEPT ![f] = ParseInt(s).n] ]
    [] Flags[f].Value = "string" ->
         [ err |-> "nil", mem |-> [mem EXCEPT ![f] = s] ]
    [] Flags[f].Value = "strings" ->
         [ err |-> "nil",
           mem |-> [mem EXCEPT ![f] = stringSliceValueSet(@, s)] ]

\* Flag.Set calling Value.Set before the ValidateFunc
FlagSetThenValidate(f, v, s, caller) ==
  LET r == ValueSet(f, v.mem, s)
      w == [ mem |-> r.mem,
             log |-> Append(v.log, [ flag |-> f, s |-> s,
                                     caller |-> caller ]) ]
  IN  IF r.err # "nil" THEN [ err |-> r.err, v |-> w ]
      ELSE IF ~Flags[f].Validate.nil /\ s \notin Flags[f].Validate.choices
      THEN [ err |-> "Validate", v |-> w ]
      ELSE [ err |-> "nil", v |-> w ]

\* Flag.Set
FlagSet(f, v, s, caller) ==
  IF ~Flags[f].Validate.nil /\ s \notin Flags[f].Validate.choices
  THEN [ err |-> "Validate", v |-> v ]
  ELSE LET r == ValueSet(f, v.mem, s)
       IN  [ err |-> r.err,
             v |-> [ mem |-> r.mem,
                     log |-> Append(v.log, [ flag |-> f, s |-> s,
                                             caller |-> caller ]) ] ]

(***************************************************************************)
(* argParser.  An operation takes the parser c and the values v and gives  *)
(* the parser, the values and the error it returns.                        *)
(***************************************************************************)
name(f) == IF Flags[f].Name # <<>> THEN Flags[f].Name ELSE Flags[f].ShortName

\* c.flagsSeen[flag.name()], zero when the key is absent
flagsSeen(c, f) ==
  IF name(f) \in DOMAIN c.flagsSeen THEN c.flagsSeen[name(f)] ELSE 0

observe(c, f) ==
  [ c EXCEPT !.flagsSeen = (name(f) :> (flagsSeen(c, f) + 1)) @@ @ ]

\* the flags of a command in declaration order, over all its flag groups
groupFlags(cmd) == concat(Commands[cmd].FlagGroups)

\* the flags registered under their short names with two dashes as well
RECURSIVE addFlagsBothDashes(_, _)
addFlagsBothDashes(byName, flags) ==
  IF flags = <<>> THEN byName
  ELSE LET f == Head(flags)
           m1 == IF Flags[f].Name # <<>>
                 THEN ((<<"-", "-">> \o Flags[f].Name) :> f) @@ byName
                 ELSE byName
           m2 == IF Flags[f].ShortName # <<>>
                 THEN ((<<"-">> \o Flags[f].ShortName) :> f) @@
                      ((<<"-", "-">> \o Flags[f].ShortName) :> f) @@ m1
                 ELSE m1
       IN  addFlagsBothDashes(m2, Tail(flags))

RECURSIVE addFlags(_, _)
addFlags(byName, flags) ==
  IF flags = <<>> THEN byName
  ELSE LET f == Head(flags)
           m1 == IF Flags[f].Name # <<>>
                 THEN ((<<"-", "-">> \o Flags[f].Name) :> f) @@ byName
                 ELSE byName
           m2 == IF Flags[f].ShortName # <<>>
                 THEN ((<<"-">> \o Flags[f].ShortName) :> f) @@ m1
                 ELSE m1
       IN  addFlags(m2, Tail(flags))

RECURSIVE addSubcommands(_, _)
addSubcommands(byName, cmds) ==
  IF cmds = <<>> THEN byName
  ELSE addSubcommands((Commands[Head(cmds)].Name :> Head(cmds)) @@ byName,
                      Tail(cmds))

\* setCommand without the assignment of c.cmd on descent
setCommandKeepsCmd(c, cmd) ==
  [ c EXCEPT !.cmd = IF @ = "nil" THEN cmd ELSE @,
             !.positionals =
                SelectSeq(groupFlags(cmd), LAMBDA f : Flags[f].Positional),
             !.flagsByName = addFlags(@, groupFlags(cmd)),
             !.subcommandsByName =
                addSubcommands(<< >>, Commands[cmd].Subcommands) ]

\* setCommand building the table of flags anew on descent
setCommandOwnFlags(c, cmd) ==
  [ c EXCEPT !.cmd = cmd,
             !.positionals =
                SelectSeq(groupFlags(cmd), LAMBDA f : Flags[f].Positional),
             !.flagsByName = addFlags(<< >>, groupFlags(cmd)),
             !.subcommandsByName =
                addSubcommands(<< >>, Commands[cmd].Subcommands) ]

\* setCommand keeping the subcommands of the commands it left
setCommandKeepsSubcommands(c, cmd) ==
  [ c EXCEPT !.cmd = cmd,
             !.positionals =
                SelectSeq(groupFlags(cmd), LAMBDA f : Flags[f].Positional),
             !.flagsByName = addFlags(@, groupFlags(cmd)),
             !.subcommandsByName =
                addSubcommands(@, Commands[cmd].Subcommands) ]

setCommand(c, cmd) ==
  [ c EXCEPT !.cmd = cmd,
             !.positionals =
                SelectSeq(groupFlags(cmd), LAMBDA f : Flags[f].Positional),
             !.flagsByName = addFlags(@, groupFlags(cmd)),
             !.subcommandsByName =
                addSubcommands(<< >>, Commands[cmd].Subcommands) ]

newArgParser(cmd, tokens) ==
  setCommand([ tokens |-> normalize(tokens, Commands[cmd].WithTerminator),
               args |-> <<>>,
               cmd |-> "nil",
               isTerminated |-> FALSE,
               flagsByName |-> << >>,
               subcommandsByName |-> << >>,
               flagsSeen |-> << >>,
               positionals |-> <<>> ],
             cmd)

setFlag(c, v, flag, value, caller) ==
  LET r == FlagSet(flag, v, value, caller)
  IN  [ c |-> c, v |-> r.v,
        err |-> IF r.err # "nil"
                THEN wrapArgErr(r.err, c.cmd, flag, value)
                ELSE NoErr ]

\* dispatchPositional looking the token up before it asks whether the
\* command has subcommands
dispatchPositionalLookup(c, v, token) ==
  IF Len(c.positionals) > 0
  THEN LET flag == c.positionals[1]
           c1 == observe(c, flag)
           n == flagsSeen(c1, flag)
           c2 == IF Flags[flag].MaxCount > 0 /\ n = Flags[flag].MaxCount
                 THEN [c1 EXCEPT !.positionals = Tail(@)]
                 ELSE c1
       IN  setFlag(c2, v, flag, token, "dispatch")
  ELSE IF token \notin DOMAIN c.subcommandsByName
  THEN [ c |-> c, v |-> v,
         err |-> newArgErr(c.cmd, "nil", token, "unrecognized command") ]
  ELSE [ c |-> setCommand(c, c.subcommandsByName[token]), v |-> v,
         err |-> NoErr ]

\* dispatchPositional leaving the front positional flag one token late
dispatchPositionalLate(c, v, token) ==
  IF Len(c.positionals) > 0
  THEN LET flag == c.positionals[1]
           c1 == observe(c, flag)
           n == flagsSeen(c1, flag)
           c2 == IF Flags[flag].MaxCount > 0 /\ n > Flags[flag].MaxCount
                 THEN [c1 EXCEPT !.positionals = Tail(@)]
                 ELSE c1
       IN  setFlag(c2, v, flag, token, "dispatch")
  ELSE IF Len(Commands[c.cmd].Subcommands) = 0
  THEN [ c |-> c, v |-> v,
         err |-> newArgErr(c.cmd, "nil", token,
                           "unexpected positional argument") ]
  ELSE IF token \notin DOMAIN c.subcommandsByName
  THEN [ c |-> c, v |-> v,
         err |-> newArgErr(c.cmd, "nil", token, "unrecognized command") ]
  ELSE [ c |-> setCommand(c, c.subcommandsByName[token]), v |-> v,
         err |-> NoErr ]

dispatchPositional(c, v, token) ==
  IF Len(c.positionals) > 0
  THEN LET flag == c.positionals[1]
           c1 == observe(c, flag)
           n == flagsSeen(c1, flag)
           c2 == IF Flags[flag].MaxCount > 0 /\ n = Flags[flag].MaxCount
                 THEN [c1 EXCEPT !.positionals = Tail(@)]
                 ELSE c1
       IN  setFlag(c2, v, flag, token, "dispatch")
  ELSE IF Len(Commands[c.cmd].Subcommands) = 0
  THEN [ c |-> c, v |-> v,
         err |-> newArgErr(c.cmd, "nil", token,
                           "unexpected positional argument") ]
  ELSE IF token \notin DOMAIN c.subcommandsByName
  THEN [ c |-> c, v |-> v,
         err |-> newArgErr(c.cmd, "nil", token, "unrecognized command") ]
  ELSE [ c |-> setCommand(c, c.subcommandsByName[token]), v |-> v,
         err |-> NoErr ]

\* dispatchRegular reading the next token as the value of a boolean flag too
dispatchRegularBoolValue(c, v, token) ==
  IF token \notin DOMAIN c.flagsByName
  THEN [ c |-> c, v |-> v,
         err |-> newArgErr(c.cmd, "nil", token, "unrecognized argument") ]
  ELSE LET flag == c.flagsByName[token]
           c1 == observe(c, flag)
       IN  IF c1.tokens = <<>> \/ ~isPositional(Head(c1.tokens))
           THEN IF isBoolValue(flag)
                THEN setFlag(c1, v, flag, sTrue, "dispatch")
                ELSE [ c |-> c1, v |-> v,
                       err |-> newArgErr(c.cmd, flag, token,
                                         "no value specified for flag") ]
           ELSE setFlag([c1 EXCEPT !.tokens = Tail(@)], v, flag,
                        Head(c1.tokens), "dispatch")

\* dispatchRegular taking the next token as the value whatever its shape
dispatchRegularAnyValue(c, v, token) ==
  IF token \notin DOMAIN c.flagsByName
  THEN [ c |-> c, v |-> v,
         err |-> newArgErr(c.cmd, "nil", token, "unrecognized argument") ]
  ELSE LET flag == c.flagsByName[token]
           c1 == observe(c, flag)
       IN  IF isBoolValue(flag)
           THEN setFlag(c1, v, flag, sTrue, "dispatch")
           ELSE IF c1.tokens = <<>>
           THEN [ c |-> c1, v |-> v,
                  err |-> newArgErr(c.cmd, flag, token,
                                    "no value specified for flag") ]
           ELSE setFlag([c1 EXCEPT !.tokens = Tail(@)], v, flag,
                        Head(c1.tokens), "dispatch")

dispatchRegular(c, v, token) ==
  IF token \notin DOMAIN c.flagsByName
  THEN [ c |-> c, v |-> v,
         err |-> newArgErr(c.cmd, "nil", token, "unrecognized argument") ]
  ELSE LET flag == c.flagsByName[token]
           c1 == observe(c, flag)
       IN  IF isBoolValue(flag)
           THEN setFlag(c1, v, flag, sTrue, "dispatch")
           ELSE IF c1.tokens = <<>> \/ ~isPositional(Head(c1.tokens))
           THEN [ c |-> c1, v |-> v,
                  err |-> newArgErr(c.cmd, flag, token,
                                    "no value specified for flag") ]
           ELSE setFlag([c1 EXCEPT !.tokens = Tail(@)], v, flag,
                        Head(c1.tokens), "dispatch")

\* dispatch taking only -h as a request for help
dispatchShortHelp(c, v, token) ==
  IF c.isTerminated
  THEN [ c |-> [c EXCEPT !.args = Append(@, token)], v |-> v, err |-> NoErr ]
  ELSE IF token = terminator /\ Commands[c.cmd].WithTerminator
  THEN [ c |-> [c EXCEPT !.isTerminated = TRUE], v |-> v, err |-> NoErr ]
  ELSE IF token = sHelpShort
  THEN [ c |-> c, v |-> v, err |-> HelpError(c.cmd) ]
  ELSE IF isPositional(token)
  THEN dispatchPositional(c, v, token)
  ELSE dispatchRegular(c, v, token)

dispatch(c, v, token) ==
  IF c.isTerminated
  THEN [ c |-> [c EXCEPT !.args = Append(@, token)], v |-> v, err |-> NoErr ]
  ELSE IF token = terminator /\ Commands[c.cmd].WithTerminator
  THEN [ c |-> [c EXCEPT !.isTerminated = TRUE], v |-> v, err |-> NoErr ]
  ELSE IF token = sHelpShort \/ token = sHelpLong
  THEN [ c |-> c, v |-> v, err |-> HelpError(c.cmd) ]
  ELSE IF isPositional(token)
  THEN dispatchPositional(c, v, token)
  ELSE dispatchRegular(c, v, token)

\* an iteration that dispatches the front token without removing it
loopKeepsToken(c, v) == dispatch(c, v, Head(c.tokens))

\* one iteration of the loop of argParser.Parse: next, then dispatch
loop(c, v) == dispatch([c EXCEPT !.tokens = Tail(@)], v, Head(c.tokens))

\* os.LookupEnv
LookupEnv(environ, key) ==
  IF key \in DOMAIN environ
  THEN [ s |-> environ[key], ok |-> TRUE ]
  ELSE [ s |-> <<>>, ok |-> FALSE ]

\* the body of the loop of parseEnvVars for one key of flagsByName
parseEnvVar(c, v, environ, key) ==
  LET flag == c.flagsByName[key]
  IN  IF Flags[flag].EnvVar = "" THEN [ c |-> c, v |-> v, err |-> NoErr ]
      ELSE IF flagsSeen(c, flag) > 0 THEN [ c |-> c, v |-> v, err |-> NoErr ]
      ELSE IF ~LookupEnv(environ, Flags[flag].EnvVar).ok
      THEN [ c |-> c, v |-> v, err |-> NoErr ]
      ELSE setFlag(observe(c, flag), v, flag,
                   LookupEnv(environ, Flags[flag].EnvVar).s, "parseEnvVars")

\* parseEnvVars ranges over a Go map: the keys are visited in any order,
\* so it has a set of outcomes
RECURSIVE rangeEnvVars(_, _, _, _)
rangeEnvVars(c, v, environ, keys) ==
  IF keys = {} THEN { [ c |-> c, v |-> v, err |-> NoErr ] }
  ELSE UNION { LET r == parseEnvVar(c, v, environ, key)
               IN  IF r.err # NoErr THEN { r }
                   ELSE rangeEnvVars(r.c, r.v, environ, keys \ {key})
               : key \in keys }

\* parseEnvVars ranging over the flags of the current command only
parseEnvVarsOwnFlags(c, v, environ) ==
  rangeEnvVars(c, v, environ,
               { key \in DOMAIN c.flagsByName :
                   \E i \in 1..Len(groupFlags(c.cmd)) :
                     groupFlags(c.cmd)[i] = c.flagsByName[key] })

parseEnvVars(c, v, environ) ==
  rangeEnvVars(c, v, environ, DOMAIN c.flagsByName)

\* checkNArg refusing a flag seen exactly MaxCount times
checkNArgAtMax(c, flag) ==
  LET n == flagsSeen(c, flag)
  IN  IF Flags[flag].MinCount > 0 /\ n < Flags[flag].MinCount
      THEN newArgErr(c.cmd, flag, <<>>, "missing argument")
      ELSE IF Flags[flag].MaxCount > 0 /\ n >= Flags[flag].MaxCount
      THEN newArgErr(c.cmd, flag, <<>>, "argument declared too many times")
      ELSE NoErr

\* the error of checkNArgs for one flag
checkNArg(c, flag) ==
  LET n == flagsSeen(c, flag)
  IN  IF Flags[flag].MinCount > 0 /\ n < Flags[flag].MinCount
      THEN newArgErr(c.cmd, flag, <<>>, "missing argument")
      ELSE IF Flags[flag].MaxCount > 0 /\ n > Flags[flag].MaxCount
      THEN newArgErr(c.cmd, flag, <<>>, "argument declared too many times")
      ELSE NoErr

RECURSIVE rangeNArgs(_, _)
rangeNArgs(c, flags) ==
  IF flags = <<>> THEN NoErr
  ELSE IF checkNArg(c, Head(flags)) # NoErr THEN checkNArg(c, Head(flags))
  ELSE rangeNArgs(c, Tail(flags))

checkNArgs(c) == rangeNArgs(c, groupFlags(c.cmd))

\* a loop that goes on after a request for help
returnsNoHelp(e) == e # NoErr /\ e.kind # "HelpError"

\* argParser.Parse leaving its loop on a HelpError only
returnsHelp(e) == e # NoErr /\ e.kind = "HelpError"

\* argParser.Parse returns from its loop on any error of dispatch
returns(e) == e # NoErr

\* the loop of argParser.Parse run to its end or to the first error
RECURSIVE rangeTokens(_, _)
rangeTokens(c, v) ==
  IF c.tokens = <<>> THEN [ c |-> c, v |-> v, err |-> NoErr ]
  ELSE LET r == loop(c, v)
       IN  IF returns(r.err) THEN r ELSE rangeTokens(r.c, r.v)

\* the results argParser.Parse can return, with the values it leaves
argParserParse(c, v, environ) ==
  LET l == rangeTokens(c, v)
  IN  IF l.err # NoErr
      THEN { [ cmd |-> "nil", args |-> <<>>, err |-> l.err, v |-> l.v ] }
      ELSE { IF e.err # NoErr
             THEN [ cmd |-> "nil", args |-> <<>>, err |-> e.err, v |-> e.v ]
             ELSE IF checkNArgs(e.c) # NoErr
             THEN [ cmd |-> "nil", args |-> <<>>, err |-> checkNArgs(e.c),
                    v |-> e.v ]
             ELSE [ cmd |-> e.c.cmd, args |-> e.c.args, err |-> NoErr,
                    v |-> e.v ]
             : e \in parseEnvVars(l.c, l.v, environ) }

(***************************************************************************)
(* One call of Command.Parse.                                              *)
(***************************************************************************)
VARIABLES
  root,      \* the command Parse is called on
  argv,      \* the arguments given to Parse
  environ,   \* the process environment
  p,         \* the argParser
  v,         \* the values the flags are bound to
  cmdArgs,   \* the args field of each Command
  arg,       \* the token the loop of argParser.Parse took last
  err,       \* the error returned
  ret,       \* the command Command.Parse returns
  pc,        \* where the call is: "new", "loop", "check", "return" or "done"
  b,         \* a CommandBuilder: the command it builds and its first error
  built,     \* what Command() of the builder returned, once it was called
  fb,         \* a FlagBuilder: the flag it builds
  builders,   \* the CommandBuilders of a tree of commands, by name
  calls      \* the concurrent calls of Parse on one tree, by number

vars == << root, argv, environ, p, v, cmdArgs, arg, err, ret, pc, b, built,
          fb,
          builders,
          calls >>

\* the argParser before newArgParser has filled it
zeroArgParser ==
  [ tokens |-> <<>>, args |-> <<>>, cmd |-> "nil", isTerminated |-> FALSE,
    flagsByName |-> << >>, subcommandsByName |-> << >>, flagsSeen |-> << >>,
    positionals |-> <<>> ]

\* the calls that run concurrently, and a call that has not begun
Calls == { 1, 2 }

idleCall ==
  [ argv |-> <<>>, pc |-> "new", p |-> zeroArgParser, v |-> newValues,
    err |-> NoErr, ret |-> "nil", seen |-> <<>> ]

noCalls == [ i \in Calls |-> idleCall ]

\* no builder is at work while Parse runs
notBuilt == [ done |-> FALSE, returned |-> FALSE, err |-> "nil" ]

ArgLists(root_) == UNION { [ 1..n -> Tokens(root_) ] : n \in 0..MaxArgs }

Init ==
  /\ root \in Roots
  /\ argv \in ArgLists(root)
  /\ environ \in Environments
  /\ p = newArgParser(root, argv)
  /\ v = newValues
  /\ cmdArgs = [ c \in CommandIds |-> <<>> ]
  /\ arg = <<>>
  /\ err = NoErr
  /\ ret = "nil"
  /\ pc = "loop"
  /\ b = newCommandBuilder
  /\ built = notBuilt
  /\ fb = [ flag |-> Bool(nFoo) ]
  /\ builders = newBuilders
  /\ calls = noCalls

\* argParser.Parse: one iteration of the loop over the tokens
Loop ==
  /\ pc = "loop"
  /\ p.tokens # <<>>
  /\ LET r == loop(p, v)
     IN  /\ p' = r.c
         /\ v' = r.v
         /\ err' = r.err
         /\ pc' = IF returns(r.err) THEN "return" ELSE "loop"
  /\ arg' = Head(p.tokens)
  /\ UNCHANGED << root, argv, environ, cmdArgs, ret, b, built, fb, builders,
                  calls >>

\* argParser.Parse: the loop is left, parseEnvVars runs
ParseEnvVars ==
  /\ pc = "loop"
  /\ p.tokens = <<>>
  /\ \E r \in parseEnvVars(p, v, environ) :
       /\ p' = r.c
       /\ v' = r.v
       /\ err' = r.err
       /\ pc' = IF r.err # NoErr THEN "return" ELSE "check"
  /\ UNCHANGED << root, argv, environ, cmdArgs, arg, ret, b, built, fb,
                  builders, calls >>

\* argParser.Parse: checkNArgs runs
CheckNArgs ==
  /\ pc = "check"
  /\ err' = checkNArgs(p)
  /\ pc' = "return"
  /\ UNCHANGED << root, argv, environ, p, v, cmdArgs, arg, ret, b, built, fb,
                  builders, calls >>

\* Command.Parse storing the trailing arguments in the command it was
\* called on
ReturnStoresOnRoot ==
  /\ pc = "return"
  /\ IF err # NoErr
     THEN /\ ret' = "nil"
          /\ UNCHANGED cmdArgs
     ELSE /\ ret' = p.cmd
          /\ cmdArgs' = [cmdArgs EXCEPT ![root] = p.args]
  /\ pc' = "done"
  /\ UNCHANGED << root, argv, environ, p, v, arg, err, b, built, fb,
                  builders, calls >>

\* Command.Parse returns what argParser.Parse returned
Return ==
  /\ pc = "return"
  /\ IF err # NoErr
     THEN /\ ret' = "nil"
          /\ UNCHANGED cmdArgs
     ELSE /\ ret' = p.cmd
          /\ cmdArgs' = [cmdArgs EXCEPT ![p.cmd] = p.args]
  /\ pc' = "done"
  /\ UNCHANGED << root, argv, environ, p, v, arg, err, b, built, fb,
                  builders, calls >>

Next == Loop \/ ParseEnvVars \/ CheckNArgs \/ Return

Spec == Init /\ [][Next]_vars

\* the command lines of the calls whose termination is checked, and of the
\* calls that are repeated
LiveArgLists(root_) ==
  UNION { [ 1..n -> Tokens(root_) ] : n \in 0..MaxLiveArgs }

InitLive ==
  /\ root \in Roots
  /\ argv \in LiveArgLists(root)
  /\ environ \in Environments
  /\ p = newArgParser(root, argv)
  /\ v = newValues
  /\ cmdArgs = [ c \in CommandIds |-> <<>> ]
  /\ arg = <<>>
  /\ err = NoErr
  /\ ret = "nil"
  /\ pc = "loop"
  /\ b = newCommandBuilder
  /\ built = notBuilt
  /\ fb = [ flag |-> Bool(nFoo) ]
  /\ builders = newBuilders
  /\ calls = noCalls

\* Parse is one sequential call: a step that can be taken is taken
SpecLive == InitLive /\ [][Next]_vars /\ WF_vars(Next)

(***************************************************************************)
(* Parse called a second time on the same command with the same arguments  *)
(* and environment.  The flags and their values are those of the first     *)
(* call; calls[1] keeps what the first call returned.                      *)
(***************************************************************************)
ParseAgain ==
  /\ pc = "done"
  /\ calls[1].pc = "new"
  /\ calls' = [calls EXCEPT ![1] =
                 [ argv |-> argv, pc |-> "done", p |-> p, v |-> v,
                   err |-> err, ret |-> ret,
                   seen |-> IF ret = "nil" THEN <<>> ELSE cmdArgs[ret] ]]
  /\ p' = newArgParser(root, argv)
  /\ arg' = <<>>
  /\ err' = NoErr
  /\ ret' = "nil"
  /\ pc' = "loop"
  /\ UNCHANGED << root, argv, environ, v, cmdArgs, b, built, fb, builders >>

NextRepeat == Loop \/ ParseEnvVars \/ CheckNArgs \/ Return \/ ParseAgain

SpecRepeat == InitLive /\ [][NextRepeat]_vars

(***************************************************************************)
(* The construction of the parser alone: Command.Parse calls newArgParser, *)
(* which normalizes the arguments.                                         *)
(***************************************************************************)
InitNormalize ==
  /\ root \in NormRoots
  /\ argv \in UNION { [ 1..n -> NormTokens ] : n \in 0..MaxNormArgs }
  /\ environ = << >>
  /\ p = zeroArgParser
  /\ v = newValues
  /\ cmdArgs = [ c \in CommandIds |-> <<>> ]
  /\ arg = <<>>
  /\ err = NoErr
  /\ ret = "nil"
  /\ pc = "new"
  /\ b = newCommandBuilder
  /\ built = notBuilt
  /\ fb = [ flag |-> Bool(nFoo) ]
  /\ builders = newBuilders
  /\ calls = noCalls

\* Command.Parse: newArgParser normalizes the arguments
NewArgParser ==
  /\ pc = "new"
  /\ p' = newArgParser(root, argv)
  /\ pc' = "loop"
  /\ UNCHANGED << root, argv, environ, v, cmdArgs, arg, err, ret, b, built,
                  fb, builders, calls >>

NextNormalize == NewArgParser

SpecNormalize == InitNormalize /\ [][NextNormalize]_vars

(***************************************************************************)
(* Two goroutines call Parse on one command tree and then read Args() of   *)
(* the command they got, as Command.Run does for the handler.  Each call   *)
(* has its own argParser and its own values; the args field of a Command   *)
(* is shared.  It is written and read without synchronization: the steps   *)
(* interleave, so a read gives the value of the latest store.              *)
(***************************************************************************)
ConcurrentRoots == { "test", "top" }

ConcurrentTokens(root_) ==
  IF root_ = "test"
  THEN { terminator, <<"x">>, <<"-", "-">> \o nBar }
  ELSE { <<"s", "u", "b">>, terminator, <<"x">> }

CallArgLists(root_) ==
  UNION { [ 1..n -> ConcurrentTokens(root_) ] : n \in 0..MaxCallArgs }

InitConcurrent ==
  /\ root \in ConcurrentRoots
  /\ argv = <<>>
  /\ environ = << >>
  /\ p = zeroArgParser
  /\ v = newValues
  /\ cmdArgs = [ c \in CommandIds |-> <<>> ]
  /\ arg = <<>>
  /\ err = NoErr
  /\ ret = "nil"
  /\ pc = "calls"
  /\ b = newCommandBuilder
  /\ built = notBuilt
  /\ fb = [ flag |-> Bool(nFoo) ]
  /\ builders = newBuilders
  /\ \E a1, a2 \in CallArgLists(root) :
       /\ a1 # a2
       /\ calls = [ i \in Calls |->
                      [idleCall EXCEPT
                         !.argv = IF i = 1 THEN a1 ELSE a2,
                         !.p = newArgParser(root, IF i = 1 THEN a1 ELSE a2),
                         !.pc = "loop"] ]

\* argParser.Parse of call i: one iteration of the loop over the tokens
CallLoop(i) ==
  /\ calls[i].pc = "loop"
  /\ calls[i].p.tokens # <<>>
  /\ LET r == loop(calls[i].p, calls[i].v)
     IN  calls' = [calls EXCEPT ![i].p = r.c,
                                ![i].v = r.v,
                                ![i].err = r.err,
                                ![i].pc = IF returns(r.err) THEN "return"
                                          ELSE "loop"]
  /\ UNCHANGED << root, argv, environ, p, v, cmdArgs, arg, err, ret, pc, b,
                  built, fb, builders >>

\* argParser.Parse of call i: the loop is left, parseEnvVars runs
CallParseEnvVars(i) ==
  /\ calls[i].pc = "loop"
  /\ calls[i].p.tokens = <<>>
  /\ \E r \in parseEnvVars(calls[i].p, calls[i].v, environ) :
       calls' = [calls EXCEPT ![i].p = r.c,
                              ![i].v = r.v,
                              ![i].err = r.err,
                              ![i].pc = IF r.err # NoErr THEN "return"
                                        ELSE "check"]
  /\ UNCHANGED << root, argv, environ, p, v, cmdArgs, arg, err, ret, pc, b,
                  built, fb, builders >>

\* argParser.Parse of call i: checkNArgs runs
CallCheckNArgs(i) ==
  /\ calls[i].pc = "check"
  /\ calls' = [calls EXCEPT ![i].err = checkNArgs(calls[i].p),
                            ![i].pc = "return"]
  /\ UNCHANGED << root, argv, environ, p, v, cmdArgs, arg, err, ret, pc, b,
                  built, fb, builders >>

\* Command.Parse of call i returns: cmd.args = args when there is no error
CallReturn(i) ==
  /\ calls[i].pc = "return"
  /\ IF calls[i].err # NoErr
     THEN /\ calls' = [calls EXCEPT ![i].pc = "done"]
          /\ UNCHANGED cmdArgs
     ELSE /\ calls' = [calls EXCEPT ![i].ret = calls[i].p.cmd,
                                    ![i].pc = "args"]
          /\ cmdArgs' = [cmdArgs EXCEPT ![calls[i].p.cmd] = calls[i].p.args]
  /\ UNCHANGED << root, argv, environ, p, v, arg, err, ret, pc, b, built, fb,
                  builders >>

\* call i reads the args of its command: Args(), or c.args in Command.Run
CallArgs(i) ==
  /\ calls[i].pc = "args"
  /\ calls' = [calls EXCEPT ![i].seen = cmdArgs[calls[i].ret],
                            ![i].pc = "done"]
  /\ UNCHANGED << root, argv, environ, p, v, cmdArgs, arg, err, ret, pc, b,
                  built, fb, builders >>

NextConcurrent ==
  \/ \E i \in Calls : CallLoop(i)
  \/ \E i \in Calls : CallParseEnvVars(i)
  \/ \E i \in Calls : CallCheckNArgs(i)
  \/ \E i \in Calls : CallReturn(i)
  \/ \E i \in Calls : CallArgs(i)

SpecConcurrent == InitConcurrent /\ [][NextConcurrent]_vars

(***************************************************************************)
(* The builders of a tree of commands: calls of Flags, FlagGroup and       *)
(* Subcommands on any of the builders in any order, a builder being        *)
(* changed after it was attached to its parent as well, then Command() of  *)
(* the root a.                                                             *)
(***************************************************************************)
\* the flags and subcommands all the builders hold
RECURSIVE ItemsOf(_, _)
ItemsOf(h, ids) ==
  IF ids = {} THEN 0
  ELSE LET x == CHOOSE y \in ids : TRUE
       IN  Len(concat(h[x].cmd.FlagGroups)) + Len(h[x].cmd.Subcommands)
             + ItemsOf(h, ids \ { x })

RoomLeft == MaxItems - ItemsOf(builders, BuilderIds)

InitLineage ==
  /\ root = "test"
  /\ argv = <<>>
  /\ environ = << >>
  /\ p = zeroArgParser
  /\ v = newValues
  /\ cmdArgs = [ c \in CommandIds |-> <<>> ]
  /\ arg = <<>>
  /\ err = NoErr
  /\ ret = "nil"
  /\ pc = "lineage"
  /\ b = newCommandBuilder
  /\ built = notBuilt
  /\ fb = [ flag |-> Bool(nFoo) ]
  /\ builders = newBuilders
  /\ calls = noCalls

LineageFlags ==
  /\ ~built.done
  /\ \E x \in BuilderIds, n \in 1..RoomLeft :
       \E flags \in [ 1..n -> LineagePool ] :
         builders' = [builders EXCEPT ![x] = BuilderFlags(@, flags)]
  /\ UNCHANGED << root, argv, environ, p, v, cmdArgs, arg, err, ret, pc, b,
                  built, fb, calls >>

LineageFlagGroup ==
  /\ ~built.done
  /\ \E x \in BuilderIds, n \in 1..RoomLeft :
       \E flags \in [ 1..n -> LineagePool ] :
         builders' = [builders EXCEPT ![x] = BuilderFlagGroup(@, flags)]
  /\ UNCHANGED << root, argv, environ, p, v, cmdArgs, arg, err, ret, pc, b,
                  built, fb, calls >>

LineageSubcommands ==
  /\ ~built.done
  /\ \E x \in BuilderIds, n \in 0..RoomLeft :
       \E commands \in [ 1..n -> BuilderIds \ { x } ] :
         builders' = SubcommandsOf(builders, x, commands)
  /\ UNCHANGED << root, argv, environ, p, v, cmdArgs, arg, err, ret, pc, b,
                  built, fb, calls >>

\* Command() or Must() of the builder a
LineageCommand ==
  /\ ~built.done
  /\ built' = [ done |-> TRUE,
                returned |-> BuilderCommand(builders["a"]).err = "nil",
                err |-> BuilderCommand(builders["a"]).err ]
  /\ UNCHANGED << root, argv, environ, p, v, cmdArgs, arg, err, ret, pc, b,
                  fb, builders, calls >>

NextLineage ==
  \/ LineageFlags
  \/ LineageFlagGroup
  \/ LineageSubcommands
  \/ LineageCommand

SpecLineage == InitLineage /\ [][NextLineage]_vars

(***************************************************************************)
(* The builder of a flag: Var, then calls of ShortName, Positional, NArgs, *)
(* Required and Env in any order, then Flag().                             *)
(***************************************************************************)
\* the values and the names given to Var, and the names given to ShortName
ValueKinds == { "bool", "string", "nil" }

VarNames == { nFoo, <<"f">>, <<"-", "f", "o", "o">>, <<>> }

ShortNames == { <<"f">>, <<"f", "o">>, <<>> }

InitFlag ==
  /\ root = "test"
  /\ argv = <<>>
  /\ environ = << >>
  /\ p = zeroArgParser
  /\ v = newValues
  /\ cmdArgs = [ c \in CommandIds |-> <<>> ]
  /\ arg = <<>>
  /\ err = NoErr
  /\ ret = "nil"
  /\ pc = "flag"
  /\ b = newCommandBuilder
  /\ built = notBuilt
  /\ \E kind \in ValueKinds, name_ \in VarNames :
       fb = [ flag |-> Var(kind, name_) ]
  /\ builders = newBuilders
  /\ calls = noCalls

FlagShortName ==
  /\ ~built.done
  /\ \E name_ \in ShortNames : fb' = [ flag |-> ShortName(fb.flag, name_) ]
  /\ UNCHANGED << root, argv, environ, p, v, cmdArgs, arg, err, ret, pc, b,
                  built, builders, calls >>

FlagPositional ==
  /\ ~built.done
  /\ fb' = [ flag |-> Positional(fb.flag) ]
  /\ UNCHANGED << root, argv, environ, p, v, cmdArgs, arg, err, ret, pc, b,
                  built, builders, calls >>

FlagNArgs ==
  /\ ~built.done
  /\ \E min, max \in (-1)..MaxNArgs :
       fb' = [ flag |-> NArgs(fb.flag, min, max) ]
  /\ UNCHANGED << root, argv, environ, p, v, cmdArgs, arg, err, ret, pc, b,
                  built, builders, calls >>

FlagRequired ==
  /\ ~built.done
  /\ fb' = [ flag |-> Required(fb.flag) ]
  /\ UNCHANGED << root, argv, environ, p, v, cmdArgs, arg, err, ret, pc, b,
                  built, builders, calls >>

FlagEnv ==
  /\ ~built.done
  /\ fb' = [ flag |-> Env(fb.flag, "FOO") ]
  /\ UNCHANGED << root, argv, environ, p, v, cmdArgs, arg, err, ret, pc, b,
                  built, builders, calls >>

\* FlagBuilder.Flag, and Must that panics on its error
FlagFlagCall ==
  /\ ~built.done
  /\ built' = [ done |-> TRUE,
                returned |-> FlagBuilderFlag(fb).err = "nil",
                err |-> FlagBuilderFlag(fb).err ]
  /\ UNCHANGED << root, argv, environ, p, v, cmdArgs, arg, err, ret, pc, b,
                  fb, builders, calls >>

NextFlag ==
  \/ FlagShortName
  \/ FlagPositional
  \/ FlagNArgs
  \/ FlagRequired
  \/ FlagEnv
  \/ FlagFlagCall

SpecFlag == InitFlag /\ [][NextFlag]_vars

(***************************************************************************)
(* The builder of a command: calls of Flags, FlagGroup, Subcommands and    *)
(* WithTerminator in any order, then Command().                            *)
(***************************************************************************)
\* the flags and subcommands the builder holds
Items(b_) == Len(concat(b_.cmd.FlagGroups)) + Len(b_.cmd.Subcommands)

\* the lists of arguments of one call that the bound leaves room for
Lists(pool, min) ==
  UNION { [ 1..n -> pool ] : n \in min..(MaxItems - Items(b)) }

InitBuild ==
  /\ root = "test"
  /\ argv = <<>>
  /\ environ = << >>
  /\ p = zeroArgParser
  /\ v = newValues
  /\ cmdArgs = [ c \in CommandIds |-> <<>> ]
  /\ arg = <<>>
  /\ err = NoErr
  /\ ret = "nil"
  /\ pc = "build"
  /\ b = newCommandBuilder
  /\ built = notBuilt
  /\ fb = [ flag |-> Bool(nFoo) ]
  /\ builders = newBuilders
  /\ calls = noCalls

BuildFlags ==
  /\ ~built.done
  /\ \E flags \in Lists(FlagPool, 1) : b' = BuilderFlags(b, flags)
  /\ UNCHANGED << root, argv, environ, p, v, cmdArgs, arg, err, ret, pc,
                  built, fb, builders, calls >>

BuildFlagGroup ==
  /\ ~built.done
  /\ \E flags \in Lists(FlagPool, 1) : b' = BuilderFlagGroup(b, flags)
  /\ UNCHANGED << root, argv, environ, p, v, cmdArgs, arg, err, ret, pc,
                  built, fb, builders, calls >>

BuildSubcommands ==
  /\ ~built.done
  /\ \E commands \in Lists(CommandPool, 0) :
       b' = BuilderSubcommands(b, commands)
  /\ UNCHANGED << root, argv, environ, p, v, cmdArgs, arg, err, ret, pc,
                  built, fb, builders, calls >>

BuildWithTerminator ==
  /\ ~built.done
  /\ b' = BuilderWithTerminator(b)
  /\ UNCHANGED << root, argv, environ, p, v, cmdArgs, arg, err, ret, pc,
                  built, fb, builders, calls >>

BuildCommand ==
  /\ ~built.done
  /\ built' = [ done |-> TRUE,
                returned |-> BuilderCommand(b).err = "nil",
                err |-> BuilderCommand(b).err ]
  /\ UNCHANGED << root, argv, environ, p, v, cmdArgs, arg, err, ret, pc, b,
                  fb, builders, calls >>

NextBuild ==
  \/ BuildFlags
  \/ BuildFlagGroup
  \/ BuildSubcommands
  \/ BuildWithTerminator
  \/ BuildCommand

SpecBuild == InitBuild /\ [][NextBuild]_vars

(***************************************************************************)
(* The bit fields of TestBitField are constructed on a word that holds any *)
(* value, one constructor after the other, and then the command is parsed. *)
(* fb is the FlagBuilder the last constructor returned.                    *)
(***************************************************************************)
Words == 0..(2 ^ WordBits - 1)

\* the number of bit fields constructed so far
constructed ==
  IF \E i \in DOMAIN bitFieldOrder : fb.flag = Flags[bitFieldOrder[i]]
  THEN CHOOSE i \in DOMAIN bitFieldOrder : fb.flag = Flags[bitFieldOrder[i]]
  ELSE 0

InitBitField ==
  /\ root = "bit"
  /\ argv \in ArgLists(root)
  /\ environ = << >>
  /\ p = zeroArgParser
  /\ \E w \in Words : v = declaredValues(w)
  /\ cmdArgs = [ c \in CommandIds |-> <<>> ]
  /\ arg = <<>>
  /\ err = NoErr
  /\ ret = "nil"
  /\ pc = "bitfield"
  /\ b = newCommandBuilder
  /\ built = notBuilt
  /\ fb = [ flag |-> Bool(nFoo) ]
  /\ builders = newBuilders
  /\ calls = noCalls

\* BitField: newBitFieldValue applies the default, Var returns the builder
NewBitFieldValue ==
  /\ pc = "bitfield"
  /\ LET f == bitFieldOrder[constructed + 1]
         b_ == bitFieldValues[f]
     IN  /\ v' = [v EXCEPT !.mem[b_.p] =
                     bitFieldValueSet(@, b_.mask, b_.value)]
         /\ fb' = [ flag |-> Flags[f] ]
         /\ pc' = IF constructed + 1 = Len(bitFieldOrder)
                  THEN "parse" ELSE "bitfield"
  /\ UNCHANGED << root, argv, environ, p, cmdArgs, arg, err, ret, b, built,
                  builders, calls >>

\* Command.Parse: newArgParser
BitFieldParse ==
  /\ pc = "parse"
  /\ p' = newArgParser(root, argv)
  /\ pc' = "loop"
  /\ UNCHANGED << root, argv, environ, v, cmdArgs, arg, err, ret, b, built,
                  fb, builders, calls >>

NextBitField ==
  \/ NewBitFieldValue
  \/ BitFieldParse
  \/ Loop
  \/ ParseEnvVars
  \/ CheckNArgs
  \/ Return

SpecBitField == InitBitField /\ [][NextBitField]_vars

(***************************************************************************)
(* Helpers of the properties.                                              *)
(***************************************************************************)
\* the results of parsing args alone, from fresh values
ParseAlone(args) == argParserParse(newArgParser(root, args), newValues, environ)

\* the tokens of the normalized command line dispatched so far
Consumed ==
  LET all == normalize(argv, Commands[root].WithTerminator)
  IN  SubSeq(all, 1, Len(all) - Len(p.tokens))

\* the values passed to Value.Set of flag f by the given caller, in order
RECURSIVE SetsOf(_, _, _)
SetsOf(log, f, caller) ==
  IF log = <<>> THEN <<>>
  ELSE IF Head(log).flag = f /\ Head(log).caller = caller
  THEN << Head(log).s >> \o SetsOf(Tail(log), f, caller)
  ELSE SetsOf(Tail(log), f, caller)

(***************************************************************************)
(* C1: for a command built WithTerminator and a command line P, "--", T    *)
(* where P holds no "--" and parses without error, Parse succeeds, binds   *)
(* the flags of P and Args() of the resolved command is T, unmodified.     *)
(***************************************************************************)
C1_TerminatorArgs ==
  (pc = "done" /\ Commands[root].WithTerminator) =>
    \A i \in 1..Len(argv) :
      LET P == SubSeq(argv, 1, i - 1)
          T == SubSeq(argv, i + 1, Len(argv))
      IN  ( /\ argv[i] = terminator
            /\ \A j \in 1..(i - 1) : argv[j] # terminator
            /\ \A r \in ParseAlone(P) : r.err = NoErr )
          => /\ err = NoErr
             /\ ret # "nil"
             /\ cmdArgs[ret] = T
             /\ \E r \in ParseAlone(P) : r.cmd = ret /\ r.v.mem = v.mem

\* C1 restricted to the command lines where no token of P is split into a
\* "--" by normalize
C1_NoSplitTerminator ==
  (pc = "done" /\ Commands[root].WithTerminator) =>
    \A i \in 1..Len(argv) :
      LET P == SubSeq(argv, 1, i - 1)
          T == SubSeq(argv, i + 1, Len(argv))
      IN  ( /\ argv[i] = terminator
            /\ \A j \in 1..Len(normalize(P, FALSE)) :
                  normalize(P, FALSE)[j] # terminator
            /\ \A r \in ParseAlone(P) : r.err = NoErr )
          => /\ err = NoErr
             /\ ret # "nil"
             /\ cmdArgs[ret] = T
             /\ \E r \in ParseAlone(P) : r.cmd = ret /\ r.v.mem = v.mem

(***************************************************************************)
(* C2: for nested subcommands each declaring its own boolean flag, parsing *)
(* [c1, --x1, ..., ck, --xk] returns ck, sets exactly the flags x1..xk and *)
(* leaves every other flag of the tree at its default.                     *)
(***************************************************************************)
\* the subcommands below the root "a", outermost first
Chain == << "b", "c" >>

RECURSIVE ChainArgs(_)
ChainArgs(k) ==
  IF k = 0 THEN <<>>
  ELSE ChainArgs(k - 1) \o
       << Commands[Chain[k]].Name,
          <<"-", "-">> \o Flags[groupFlags(Chain[k])[1]].Name >>

C2_NestedSubcommands ==
  (pc = "done" /\ root = "a") =>
    \A k \in 1..Len(Chain) :
      argv = ChainArgs(k) =>
        /\ err = NoErr
        /\ ret = Chain[k]
        /\ \A f \in DOMAIN v.mem :
             v.mem[f] = IF \E i \in 1..k : f = groupFlags(Chain[i])[1]
                        THEN TRUE
                        ELSE newValues.mem[f]

C2_Witness ==
  /\ pc = "done"
  /\ root = "a"
  /\ argv = ChainArgs(2)
  /\ ret = "c"
  /\ v.mem["b.xb"] /\ v.mem["c.xc"] /\ ~v.mem["a.xa"]

(***************************************************************************)
(* C3: positional-shaped tokens go to the positional flags in declaration  *)
(* order: the front flag takes tokens until it has MaxCount of them, then  *)
(* the next one starts; an unbounded flag takes all that remain.           *)
(***************************************************************************)
\* the positional flags of the command pos, in declaration order
PosFlags == SelectSeq(groupFlags("pos"), LAMBDA f : Flags[f].Positional)

\* the number of tokens the positional flags before the i-th can take
RECURSIVE PosBefore(_)
PosBefore(i) ==
  IF i = 1 THEN 0 ELSE PosBefore(i - 1) + Flags[PosFlags[i - 1]].MaxCount

\* the tokens the i-th positional flag is due, of the positional tokens ts
PosShare(i, ts) ==
  LET from == PosBefore(i) + 1
      to == IF Flags[PosFlags[i]].MaxCount = 0 THEN Len(ts)
            ELSE IF PosBefore(i) + Flags[PosFlags[i]].MaxCount < Len(ts)
            THEN PosBefore(i) + Flags[PosFlags[i]].MaxCount
            ELSE Len(ts)
  IN  SubSeq(ts, from, to)

OutOfRange(f) ==
  \/ flagsSeen(p, f) < Flags[f].MinCount
  \/ Flags[f].MaxCount > 0 /\ flagsSeen(p, f) > Flags[f].MaxCount

ArityError ==
  LET fs == groupFlags(p.cmd)
      bad == { i \in 1..Len(fs) : OutOfRange(fs[i]) }
  IN  IF bad = {} THEN NoErr
      ELSE LET f == fs[CHOOSE i \in bad : \A j \in bad : i <= j]
           IN  [ kind |-> "ArgumentError",
                 Text |-> IF flagsSeen(p, f) < Flags[f].MinCount
                          THEN "missing argument"
                          ELSE "argument declared too many times",
                 Err |-> "nil", Cmd |-> p.cmd, Flag |-> f, Arg |-> <<>> ]

C4_ArityCheck ==
  [][ pc = "check" => (pc' = "return" /\ err' = ArityError) ]_vars

C4_Witness ==
  /\ pc = "done"
  /\ root = "req"
  /\ argv = << <<"-", "-">> \o nBar >>
  /\ err.Text = "missing argument"
  /\ err.Flag = "req.foo"
  /\ ret = "nil"

(***************************************************************************)
(* C5: for a command line that respects the [min, max] of every flag,      *)
(* Parse succeeds and the occurrence counter of each flag descriptor is    *)
(* the number of appearances of that flag on the command line.             *)
(***************************************************************************)
\* the flags declared in the tree Parse is called on
RECURSIVE IsUnder(_, _)
IsUnder(cmd, top) ==
  \/ cmd = top
  \/ Commands[cmd].Parent # "nil" /\ IsUnder(Commands[cmd].Parent, top)

TreeFlags ==
  { f \in FlagIds :
      \E cmd \in CommandIds :
        /\ IsUnder(cmd, root)
        /\ \E i \in 1..Len(groupFlags(cmd)) : groupFlags(cmd)[i] = f }

\* the times flag f was given on the command line
Appearances(f) == Len(SetsOf(v.log, f, "dispatch"))

C5_OccurrenceCount ==
  ( /\ pc = "done"
    /\ environ = << >>
    /\ p.tokens = <<>>
    /\ err.kind # "HelpError"
    /\ err.Text \in { "", "missing argument",
                      "argument declared too many times" }
    /\ err.Err = "nil"
    /\ \A f \in TreeFlags :
         Flags[f].MaxCount > 0 => Appearances(f) <= Flags[f].MaxCount
    /\ \A i \in 1..Len(groupFlags(p.cmd)) :
         Appearances(groupFlags(p.cmd)[i]) >=
           Flags[groupFlags(p.cmd)[i]].MinCount )
  => /\ err = NoErr
     /\ \A f \in TreeFlags : flagsSeen(p, f) = Appearances(f)

(***************************************************************************)
(* C6: a flag with an environment variable that is not given on the        *)
(* command line is set from the environment exactly once when the variable *)
(* is present (one call of Set, one occurrence), also when it has a long   *)
(* and a short name; a flag given on the command line is never set from    *)
(* the environment.                                                        *)
(***************************************************************************)
C6_EnvFallback ==
  (pc = "done" /\ p.tokens = <<>> /\ err = NoErr) =>
    \A i \in 1..Len(groupFlags(p.cmd)) :
      LET f == groupFlags(p.cmd)[i]
          fromEnv == SetsOf(v.log, f, "parseEnvVars")
      IN  Flags[f].EnvVar # "" =>
            /\ (Appearances(f) = 0 /\ Flags[f].EnvVar \in DOMAIN environ)
                 => /\ fromEnv = << environ[Flags[f].EnvVar] >>
                    /\ flagsSeen(p, f) = 1
            /\ Appearances(f) > 0 => fromEnv = <<>>

(***************************************************************************)
(* C7: if -h or --help is given anywhere in the arguments, Parse returns a *)
(* HelpError whose Cmd is the subcommand the preceding arguments specify.  *)
(***************************************************************************)
IsHelp(token) == token = sHelpShort \/ token = sHelpLong

\* the parser after the loop has dispatched args alone
Dispatched(args) == rangeTokens(newArgParser(root, args), newValues)

C8_HelpShortCircuits ==
  pc = "done" =>
    /\ (IsHelp(arg) /\ ~p.isTerminated)
         => /\ err = HelpError(p.cmd)
            /\ ret = "nil"
    /\ err.kind = "HelpError"
         => /\ IsHelp(arg)
            /\ Consumed # <<>>
            /\ Consumed[Len(Consumed)] = arg
            /\ \A i \in 1..Len(v.log) : v.log[i].caller = "dispatch"
            /\ Len(v.log) <= Len(Consumed) - 1

C8_Witness ==
  /\ pc = "done"
  /\ root = "req"
  /\ "FOO" \in DOMAIN environ
  /\ err = HelpError("req")
  /\ p.tokens # <<>>
  /\ v.mem["req.foo"] = <<>>
  /\ flagsSeen(p, "req.foo") = 0

(***************************************************************************)
(* C9: a HelpError is returned for -h or --help only when the current      *)
(* command declares no such flag: a declared flag with short name h or     *)
(* long name help takes the token.                                         *)
(***************************************************************************)
DeclaredHere(token) ==
  \E i \in 1..Len(groupFlags(p.cmd)) :
    LET f == groupFlags(p.cmd)[i]
    IN  \/ Flags[f].Name # <<>> /\ token = <<"-", "-">> \o Flags[f].Name
        \/ Flags[f].ShortName # <<>> /\ token = <<"-">> \o Flags[f].ShortName

C9_DeclaredHelpFlag ==
  (pc = "done" /\ IsHelp(arg) /\ ~p.isTerminated /\ DeclaredHere(arg)) =>
    /\ err.kind # "HelpError"
    /\ \E i \in 1..Len(v.log) : v.log[i].flag = p.flagsByName[arg]

(***************************************************************************)
(* C10: a boolean flag given as -f or --flag is set to "true" and does not *)
(* consume the token after it, which is dispatched on its own.             *)
(***************************************************************************)
\* the loop is about to dispatch the token of a boolean flag
AtBoolFlag ==
  /\ pc = "loop"
  /\ p.tokens # <<>>
  /\ ~p.isTerminated
  /\ ~(Head(p.tokens) = terminator /\ Commands[p.cmd].WithTerminator)
  /\ ~IsHelp(Head(p.tokens))
  /\ ~isPositional(Head(p.tokens))
  /\ Head(p.tokens) \in DOMAIN p.flagsByName
  /\ isBoolValue(p.flagsByName[Head(p.tokens)])

C10_BoolTakesNoValue ==
  [][ AtBoolFlag =>
        /\ p'.tokens = Tail(p.tokens)
        /\ v'.log = Append(v.log, [ flag |-> p.flagsByName[Head(p.tokens)],
                                    s |-> sTrue, caller |-> "dispatch" ])
        /\ v'.mem[p.flagsByName[Head(p.tokens)]] = TRUE
        /\ err' = NoErr ]_vars

C10_Witness ==
  /\ pc = "done"
  /\ root = "pos"
  /\ argv = << <<"-", "v">>, <<"o", "n", "e">> >>
  /\ v.mem["pos.v"] = TRUE
  /\ v.mem["pos.foo"] = <<"o", "n", "e">>

(***************************************************************************)
(* C11: the compound forms -f=x and --flag=x of a boolean flag supply the  *)
(* value x: parsing ["--flag=false"] succeeds and leaves the flag false.   *)
(***************************************************************************)
\* the compound forms of flag f with the value x
CompoundForms(f, x) ==
  (IF Flags[f].Name = <<>> THEN {}
   ELSE { <<"-", "-">> \o Flags[f].Name \o <<"=">> \o x })
  \cup
  (IF Flags[f].ShortName = <<>> THEN {}
   ELSE { <<"-">> \o Flags[f].ShortName \o <<"=">> \o x })

C11_BoolCompoundValue ==
  (pc = "done" /\ Len(argv) = 1) =>
    \A i \in 1..Len(groupFlags(root)) :
      \A x \in ParseBoolTrue \cup ParseBoolFalse :
        LET f == groupFlags(root)[i]
        IN  (isBoolValue(f) /\ argv[1] \in CompoundForms(f, x)) =>
              /\ err = NoErr
              /\ ret = root
              /\ v.mem[f] = (x \in ParseBoolTrue)

(***************************************************************************)
(* C12: when the token of a non-boolean flag is dispatched and no token    *)
(* follows or the following token is flag-shaped, Parse fails with "no     *)
(* value specified for flag" and the following token is not consumed;      *)
(* otherwise exactly the one following token is consumed and passed to the *)
(* flag's Set.                                                             *)
(***************************************************************************)
\* the loop is about to dispatch the token of a non-boolean flag
AtValueFlag ==
  /\ pc = "loop"
  /\ p.tokens # <<>>
  /\ ~p.isTerminated
  /\ ~(Head(p.tokens) = terminator /\ Commands[p.cmd].WithTerminator)
  /\ ~IsHelp(Head(p.tokens))
  /\ ~isPositional(Head(p.tokens))
  /\ Head(p.tokens) \in DOMAIN p.flagsByName
  /\ ~isBoolValue(p.flagsByName[Head(p.tokens)])

\* the step the claim describes, for a reading Shaped of "flag-shaped"
ValueRule(Shaped(_)) ==
  LET flag == p.flagsByName[Head(p.tokens)]
      rest == Tail(p.tokens)
  IN  IF rest = <<>> \/ Shaped(Head(rest))
      THEN /\ err'.kind = "ArgumentError"
           /\ err'.Text = "no value specified for flag"
           /\ err'.Flag = flag
           /\ p'.tokens = rest
           /\ v' = v
      ELSE /\ p'.tokens = Tail(rest)
           /\ \/ v'.log = Append(v.log, [ flag |-> flag, s |-> Head(rest),
                                          caller |-> "dispatch" ])
              \/ err'.Err = "Validate" /\ err'.Arg = Head(rest) /\ v' = v

\* flag-shaped as the claim words it: the token begins with a dash
BeginsWithDash(t) == Len(t) >= 1 /\ t[1] = "-"

\* flag-shaped: a dash and a character that is no dash, or two dashes and
\* at least one more character
FlagShaped(t) ==
  \/ Len(t) >= 2 /\ t[1] = "-" /\ t[2] # "-"
  \/ Len(t) >= 3 /\ t[1] = "-" /\ t[2] = "-"

C13_CompoundDashValue ==
  (pc = "done" /\ Len(argv) = 1) =>
    \A i \in 1..Len(groupFlags(root)) :
      LET f == groupFlags(root)[i]
      IN  ( /\ Flags[f].Value = "int64"
            /\ Flags[f].Name # <<>>
            /\ argv[1] = <<"-", "-">> \o Flags[f].Name \o <<"=">> \o sMinusOne )
          => /\ err = NoErr
             /\ ret = root
             /\ v.mem[f] = 0 - 1

(***************************************************************************)
(* C14: normalize without terminator mode maps each argument on its own    *)
(* and in order: -xREST becomes "-x" and REST less one leading '=' (a bare *)
(* "-x" only "-x"), --name=value becomes "--name" and "value", split at    *)
(* the first '=', and every other argument is emitted unchanged.           *)
(***************************************************************************)
\* out is what the one argument t becomes, where a double-dash argument is
\* split at its first '=' at or after the character numbered from
NormalizedAs(from, t, out) ==
  IF Len(t) >= 2 /\ t[1] = "-" /\ t[2] # "-"
  THEN IF Len(t) = 2 THEN out = << t >>
       ELSE /\ Len(out) = 2
            /\ Len(out[1]) = 2
            /\ t = out[1] \o (IF t[3] = "=" THEN <<"=">> ELSE <<>>) \o out[2]
  ELSE IF /\ Len(t) >= 3 /\ t[1] = "-" /\ t[2] = "-"
          /\ \E i \in from..Len(t) : t[i] = "="
  THEN /\ Len(out) = 2
       /\ t = out[1] \o <<"=">> \o out[2]
       /\ \A i \in from..Len(out[1]) : out[1][i] # "="
  ELSE out = << t >>

\* out is the arguments args normalized one by one, in order
RECURSIVE NormalizedInOrder(_, _, _)
NormalizedInOrder(from, args, out) ==
  IF args = <<>> THEN out = <<>>
  ELSE \E k \in 1..2 :
         /\ k <= Len(out)
         /\ NormalizedAs(from, Head(args), SubSeq(out, 1, k))
         /\ NormalizedInOrder(from, Tail(args), SubSeq(out, k + 1, Len(out)))

C14_SplitsAtFirstEq ==
  (pc = "loop" /\ ~Commands[root].WithTerminator) =>
    NormalizedInOrder(3, argv, p.tokens)

\* C14 as amended: the character right after the two dashes belongs to the
\* name, the argument is split at the first '=' after it
C14_SplitsAfterName ==
  (pc = "loop" /\ ~Commands[root].WithTerminator) =>
    NormalizedInOrder(4, argv, p.tokens)

C14_Witness ==
  /\ pc = "loop"
  /\ ~Commands[root].WithTerminator
  /\ argv = << <<"-", "x", "=", "V", "a", "r">>,
               <<"-", "-", "x", "=", "V", "a", "r", "=">>,
               terminator >>
  /\ p.tokens = << <<"-", "x">>, <<"V", "a", "r">>, <<"-", "-", "x">>,
                   <<"V", "a", "r", "=">>, terminator >>

(***************************************************************************)
(* C15: normalize in terminator mode normalizes the arguments before the   *)
(* first "--" as it does without terminator mode and copies that "--" and  *)
(* every argument after it unmodified and unsplit.                         *)
(***************************************************************************)
\* the index of the first "--" of args, Len(args) + 1 when there is none
FirstTerminator(args) ==
  LET ts == { i \in 1..Len(args) : args[i] = terminator }
  IN  IF ts = {} THEN Len(args) + 1
      ELSE CHOOSE i \in ts : \A j \in ts : i <= j

C15_TerminatorCopies ==
  (pc = "loop" /\ Commands[root].WithTerminator) =>
    LET k == FirstTerminator(argv)
        tail == SubSeq(argv, k, Len(argv))
    IN  /\ Len(p.tokens) >= Len(tail)
        /\ SubSeq(p.tokens, Len(p.tokens) - Len(tail) + 1, Len(p.tokens)) = tail
        /\ NormalizedInOrder(4, SubSeq(argv, 1, k - 1),
                             SubSeq(p.tokens, 1, Len(p.tokens) - Len(tail)))
        /\ SubSeq(p.tokens, 1, Len(p.tokens) - Len(tail)) =
             normalize(SubSeq(argv, 1, k - 1), FALSE)

C15_Witness ==
  /\ pc = "loop"
  /\ Commands[root].WithTerminator
  /\ argv = << <<"-", "x", "V", "a", "r">>, terminator,
               <<"-", "-", "f", "o", "o", "=", "b", "a", "r">> >>
  /\ p.tokens = << <<"-", "x">>, <<"V", "a", "r">>, terminator,
                   <<"-", "-", "f", "o", "o", "=", "b", "a", "r">> >>

(***************************************************************************)
(* C16: normalize is idempotent on normalized input without '=': if B is   *)
(* normalize(A) and no token of B contains '=', normalize(B) is B.         *)
(***************************************************************************)
HasEq(t) == \E i \in 1..Len(t) : t[i] = "="

C16_Idempotent ==
  (pc = "loop" /\ \A i \in 1..Len(p.tokens) : ~HasEq(p.tokens[i])) =>
    normalize(p.tokens, Commands[root].WithTerminator) = p.tokens

\* C16 as amended: B moreover holds no single-dash token of more than two
\* characters (the value of a compound form that begins with a dash)
C16_IdempotentNoDashValue ==
  ( /\ pc = "loop"
    /\ \A i \in 1..Len(p.tokens) : ~HasEq(p.tokens[i])
    /\ \A i \in 1..Len(p.tokens) :
          ~( /\ Len(p.tokens[i]) > 2
             /\ p.tokens[i][1] = "-"
             /\ p.tokens[i][2] # "-" ) )
  => normalize(p.tokens, Commands[root].WithTerminator) = p.tokens

C16_Witness ==
  /\ pc = "loop"
  /\ argv = << <<"-", "x", "V", "a", "r">>,
               <<"-", "-", "f", "o", "o", "=", "b", "a", "r">>,
               <<"-", "x">> >>
  /\ p.tokens = << <<"-", "x">>, <<"V", "a", "r">>, <<"-", "-", "f", "o", "o">>,
                   <<"b", "a", "r">>, <<"-", "x">> >>
  /\ normalize(p.tokens, Commands[root].WithTerminator) = p.tokens

(***************************************************************************)
(* C17: "--" is the terminator only if the command resolved at that point  *)
(* enables terminator mode, and then everything after it is returned word  *)
(* for word as the trailing args: for a root without WithTerminator and a  *)
(* subcommand with it, [sub, "--"] ++ T gives the trailing args T.         *)
(***************************************************************************)
C17_SubcommandTerminator ==
  /\ p.isTerminated => Commands[p.cmd].WithTerminator
  /\ (pc = "done" /\ ~Commands[root].WithTerminator /\ Len(argv) >= 2) =>
       \A i \in 1..Len(Commands[root].Subcommands) :
         LET sub == Commands[root].Subcommands[i]
         IN  ( /\ Commands[sub].WithTerminator
               /\ argv[1] = Commands[sub].Name
               /\ argv[2] = terminator )
             => /\ err = NoErr
                /\ ret = sub
                /\ cmdArgs[sub] = SubSeq(argv, 3, Len(argv))

(***************************************************************************)
(* C18: on descent the table of flags is rebuilt from the flags of the     *)
(* subcommand only: afterwards the token of a flag declared only on an     *)
(* ancestor command fails with "unrecognized argument".                    *)
(***************************************************************************)
\* the tokens that name flag f
FlagKeys(f) ==
  (IF Flags[f].Name = <<>> THEN {} ELSE { <<"-", "-">> \o Flags[f].Name })
  \cup
  (IF Flags[f].ShortName = <<>> THEN {} ELSE { <<"-">> \o Flags[f].ShortName })

\* the flags command cmd declares
OwnFlags(cmd) == { groupFlags(cmd)[i] : i \in 1..Len(groupFlags(cmd)) }

\* the flag token t names in cmd or else in its nearest ancestor, or "nil"
RECURSIVE Nearest(_, _)
Nearest(cmd, t) ==
  IF cmd = "nil" THEN "nil"
  ELSE IF \E f \in OwnFlags(cmd) : t \in FlagKeys(f)
  THEN CHOOSE f \in OwnFlags(cmd) : t \in FlagKeys(f)
  ELSE Nearest(Commands[cmd].Parent, t)

\* the loop is about to dispatch a flag token that the current command does
\* not declare and an ancestor does
AtAncestorFlag ==
  /\ pc = "loop"
  /\ p.tokens # <<>>
  /\ ~p.isTerminated
  /\ ~(Head(p.tokens) = terminator /\ Commands[p.cmd].WithTerminator)
  /\ ~IsHelp(Head(p.tokens))
  /\ FlagShaped(Head(p.tokens))
  /\ \A f \in OwnFlags(p.cmd) : Head(p.tokens) \notin FlagKeys(f)
  /\ Nearest(p.cmd, Head(p.tokens)) # "nil"

C18_AncestorFlagHidden ==
  [][ AtAncestorFlag =>
        /\ err'.kind = "ArgumentError"
        /\ err'.Text = "unrecognized argument" ]_vars

\* C18 as amended: the table of flags is extended on descent, and the token
\* is resolved to the flag of the nearest ancestor that declares it
C18_AncestorFlagResolved ==
  [][ AtAncestorFlag =>
        LET f == Nearest(p.cmd, Head(p.tokens))
        IN  /\ err'.Text # "unrecognized argument"
            /\ flagsSeen(p', f) = flagsSeen(p, f) + 1
            /\ isBoolValue(f) =>
                 /\ err' = NoErr
                 /\ v'.mem[f] = TRUE
            /\ (~isBoolValue(f) /\ err' = NoErr) =>
                 /\ Len(v'.log) = Len(v.log) + 1
                 /\ v'.log[Len(v'.log)].flag = f ]_vars

C18_Witness ==
  /\ pc = "done"
  /\ root = "a"
  /\ argv = << <<"b">>, <<"-", "-">> \o nXa >>
  /\ err = NoErr
  /\ ret = "b"
  /\ v.mem["a.xa"] = TRUE

(***************************************************************************)
(* C19: the environment fallback is local to the resolved command: when    *)
(* Parse resolves a subcommand, a flag bound to the environment that only  *)
(* an ancestor declares and the command line does not give is not set from *)
(* the environment.                                                        *)
(***************************************************************************)
\* the flags declared by the ancestors of command cmd
RECURSIVE AncestorFlags(_)
AncestorFlags(cmd) ==
  IF Commands[cmd].Parent = "nil" THEN {}
  ELSE OwnFlags(Commands[cmd].Parent) \cup AncestorFlags(Commands[cmd].Parent)

\* the names of flag f
NamesOf(f) == { Flags[f].Name, Flags[f].ShortName } \ { <<>> }

C19_EnvScopeLocal ==
  (pc = "done" /\ err = NoErr) =>
    \A f \in AncestorFlags(ret) :
      (Flags[f].EnvVar # "" /\ Appearances(f) = 0) =>
        SetsOf(v.log, f, "parseEnvVars") = <<>>

\* C19 as amended: the fallback covers the flags of the ancestors too; such
\* a flag, when no other command on the path declares one of its names, is
\* set from the environment exactly once
C19_EnvInherited ==
  (pc = "done" /\ err = NoErr) =>
    \A f \in AncestorFlags(ret) :
      ( /\ Flags[f].EnvVar \in DOMAIN environ
        /\ Appearances(f) = 0
        /\ \A g \in (AncestorFlags(ret) \cup OwnFlags(ret)) \ { f } :
              NamesOf(g) \cap NamesOf(f) = {} )
      => /\ SetsOf(v.log, f, "parseEnvVars") = << environ[Flags[f].EnvVar] >>
         /\ flagsSeen(p, f) = 1

C19_Witness ==
  /\ pc = "done"
  /\ root = "top"
  /\ argv = << <<"s", "u", "b">> >>
  /\ "FOO" \in DOMAIN environ
  /\ err = NoErr
  /\ ret = "sub"
  /\ v.mem["top.foo"] = <<"e">>

(***************************************************************************)
(* C20: a command that declares a positional flag and a subcommand fails   *)
(* the validation of Command() whatever the order in which Flags,          *)
(* FlagGroup and Subcommands were called on its builder.                   *)
(***************************************************************************)
\* the builder holds a positional flag and a subcommand
PositionalAndSubcommand ==
  /\ \E i \in 1..Len(concat(b.cmd.FlagGroups)) :
       Flags[concat(b.cmd.FlagGroups)[i]].Positional
  /\ Len(b.cmd.Subcommands) > 0

C20_PositionalWithSubcommand ==
  (built.done /\ PositionalAndSubcommand) =>
    /\ ~built.returned
    /\ built.err # "nil"

C20_Witness ==
  /\ built.done
  /\ Len(b.cmd.FlagGroups) = 2
  /\ b.cmd.FlagGroups[1] = << "test.bar" >>
  /\ b.cmd.FlagGroups[2] = << "pos.foo" >>
  /\ Len(b.cmd.Subcommands) = 1
  /\ built.err = "cannot specify both subcommands and positional arguments"

(***************************************************************************)
(* C21: Command() fails when a positional flag is declared after an        *)
(* unbounded positional flag (MaxCount 0, whatever its MinCount); it       *)
(* succeeds for bounded positional flags of distinct names, the last of    *)
(* which may be unbounded.                                                 *)
(***************************************************************************)
\* the flags of the builder in the order of their declaration
Declared == concat(b.cmd.FlagGroups)

IsUnbounded(f) == Flags[f].Positional /\ Flags[f].MaxCount = 0

PositionalAfterUnbounded ==
  \E i, j \in 1..Len(Declared) :
    i < j /\ IsUnbounded(Declared[i]) /\ Flags[Declared[j]].Positional

\* two flags of the builder share a long name, or share a short name
SharedName ==
  \E i, j \in 1..Len(Declared) :
    /\ i < j
    /\ \/ /\ Flags[Declared[i]].Name # <<>>
          /\ Flags[Declared[i]].Name = Flags[Declared[j]].Name
       \/ /\ Flags[Declared[i]].ShortName # <<>>
          /\ Flags[Declared[i]].ShortName = Flags[Declared[j]].ShortName

\* every call of the builder passed and it holds positional flags alone,
\* none but the last unbounded
BoundedThenUnbounded ==
  /\ b.err = "nil"
  /\ Len(b.cmd.Subcommands) = 0
  /\ ~SharedName
  /\ \A i \in 1..Len(Declared) :
       /\ Flags[Declared[i]].Positional
       /\ i < Len(Declared) => ~IsUnbounded(Declared[i])

C21_PositionalOrdering ==
  built.done =>
    /\ PositionalAfterUnbounded => (~built.returned /\ built.err # "nil")
    /\ BoundedThenUnbounded => (built.returned /\ built.err = "nil")

C21_Witness ==
  /\ built.done
  /\ b.cmd.FlagGroups = << << "pos.foo", "ord.one", "pos.baz" >> >>
  /\ built.err =
       "positional arguments cannot follow unbounded positional arguments"

(***************************************************************************)
(* C22: Command() fails when two flags of the command, of one flag group   *)
(* or of two, share a long name or share a short name, with "flag already  *)
(* declared" unless the builder or a rule of the positional flags failed   *)
(* first; that error is never given for flags whose names are pairwise     *)
(* distinct.                                                               *)
(***************************************************************************)
HasPositional ==
  \E i \in 1..Len(Declared) : Flags[Declared[i]].Positional

C22_FlagAlreadyDeclared ==
  built.done =>
    /\ SharedName => (~built.returned /\ built.err # "nil")
    /\ (SharedName /\ b.err = "nil" /\ ~HasPositional) =>
         built.err = "flag already declared"
    /\ ~SharedName => built.err # "flag already declared"
    /\ (~SharedName /\ b.err = "nil" /\ ~HasPositional) => built.returned

C22_Witness ==
  /\ built.done
  /\ b.cmd.FlagGroups = << << "req.foo" >>, << "num.flag" >> >>
  /\ built.err = "flag already declared"

(***************************************************************************)
(* C23: Flag() of a flag builder fails exactly when MinCount < 0,          *)
(* MaxCount < 0, MaxCount > 0 and MinCount > MaxCount, the short name is   *)
(* longer than one character, the long name begins with "-", or the value  *)
(* is nil; NArgs(min, 0) with min >= 0 is accepted.                        *)
(***************************************************************************)
Refused(flag) ==
  \/ flag.MinCount < 0
  \/ flag.MaxCount < 0
  \/ flag.MaxCount > 0 /\ flag.MinCount > flag.MaxCount
  \/ Len(flag.ShortName) > 1
  \/ flag.Name # <<>> /\ flag.Name[1] = "-"
  \/ flag.Value = "nil"

C23_FlagValidation ==
  built.done =>
    /\ Refused(fb.flag) <=> (~built.returned /\ built.err # "nil")
    /\ ~Refused(fb.flag) <=> (built.returned /\ built.err = "nil")

C23_Witness ==
  /\ built.done
  /\ built.returned
  /\ fb.flag.MinCount = 2
  /\ fb.flag.MaxCount = 0
  /\ fb.flag.Positional
  /\ fb.flag.ShortName = <<"f">>

(***************************************************************************)
(* C24: whatever the sequence of builder calls, calls on a builder after   *)
(* it was attached to its parent included, when Command() of the root      *)
(* succeeds every command of the tree passes the checks of the             *)
(* configuration: no positional flag beside subcommands, no positional     *)
(* flag after an unbounded one, no name declared twice.                    *)
(***************************************************************************)
\* the builders whose commands are reached from x over Subcommands
RECURSIVE Reached(_, _)
Reached(h, ids) ==
  LET more == ids \cup UNION { { h[x].cmd.Subcommands[i] :
                                   i \in 1..Len(h[x].cmd.Subcommands) } :
                               x \in ids }
  IN  IF more = ids THEN ids ELSE Reached(h, more)

C24_TreeConforms ==
  (built.done /\ built.returned) =>
    \A x \in Reached(builders, { "a" }) :
      CommandErr(builders[x].cmd) = "nil"

C27_ErrorsTerminal ==
  [][ err # NoErr =>
        /\ err' = err
        /\ p' = p
        /\ v' = v
        /\ cmdArgs' = cmdArgs
        /\ ret' = "nil"
        /\ pc' = "done" ]_vars

C27_Witness ==
  /\ pc = "done"
  /\ err.kind = "ArgumentError"
  /\ ret = "nil"
  /\ p.tokens # <<>>
  /\ v.log # <<>>

(***************************************************************************)
(* C28: the ValidateFunc of a flag runs before Value.Set.  A value it      *)
(* refuses is never passed to Value.Set and Parse fails with an            *)
(* ArgumentError that wraps its error and names the flag, the command and  *)
(* the raw value, on the command line and in the environment fallback      *)
(* alike; Choices accepts the given strings and no other.                  *)
(***************************************************************************)
\* the loop is about to dispatch the flag of the front token, which has a
\* ValidateFunc, with the next token as its value
AtValidatedFlag ==
  /\ pc = "loop"
  /\ ~p.isTerminated
  /\ Len(p.tokens) >= 2
  /\ Head(p.tokens) \in DOMAIN p.flagsByName
  /\ ~Flags[p.flagsByName[Head(p.tokens)]].Validate.nil
  /\ ~isBoolValue(p.flagsByName[Head(p.tokens)])
  /\ isPositional(p.tokens[2])

\* the flags with a ValidateFunc that parseEnvVars finds unset and bound
\* to a variable that is present
EnvValidated ==
  { f \in { p.flagsByName[k] : k \in DOMAIN p.flagsByName } :
      /\ ~Flags[f].Validate.nil
      /\ flagsSeen(p, f) = 0
      /\ Flags[f].EnvVar \in DOMAIN environ }

C28_ValidateBeforeSet ==
  [][ /\ AtValidatedFlag =>
           LET f == p.flagsByName[Head(p.tokens)]
               s == p.tokens[2]
           IN  IF s \in Flags[f].Validate.choices
               THEN /\ err' = NoErr
                    /\ v'.log = Append(v.log, [ flag |-> f, s |-> s,
                                                caller |-> "dispatch" ])
               ELSE /\ v' = v
                    /\ err' = wrapArgErr("Validate", p.cmd, f, s)
                    /\ pc' = "return"
      /\ (pc = "loop" /\ p.tokens = <<>>) =>
           /\ \A f \in EnvValidated :
                environ[Flags[f].EnvVar] \notin Flags[f].Validate.choices =>
                  /\ SetsOf(v'.log, f, "parseEnvVars") = <<>>
                  /\ err'.kind = "ArgumentError"
                  /\ pc' = "return"
           /\ err'.Err = "Validate" =>
                /\ err'.Flag \in EnvValidated
                /\ err'.Arg = environ[Flags[err'.Flag].EnvVar]
                /\ err'.Arg \notin Flags[err'.Flag].Validate.choices
                /\ err'.Cmd = p.cmd
           /\ \A f \in EnvValidated :
                SetsOf(v'.log, f, "parseEnvVars") # <<>> =>
                  environ[Flags[f].EnvVar] \in Flags[f].Validate.choices
    ]_vars

C28_Witness ==
  /\ pc = "done"
  /\ root = "cho"
  /\ err = wrapArgErr("Validate", "cho", "cho.foo", <<"b", "a">>)
  /\ v.log = << [ flag |-> "cho.foo", s |-> nBar, caller |-> "dispatch" ] >>
  /\ v.mem["cho.foo"] = nBar

(***************************************************************************)
(* C29: a positional flag is matched by position alone: a token --name or  *)
(* -c that names a positional flag does not resolve to it, so the step     *)
(* that dispatches the token neither counts an occurrence of the flag nor  *)
(* sets it.                                                                *)
(***************************************************************************)
\* the positional flags of the tree that token t names
NamedPositionals(t) ==
  { f \in TreeFlags : Flags[f].Positional /\ t \in FlagKeys(f) }

C29_PositionalByPositionOnly ==
  [][ (pc = "loop" /\ p.tokens # <<>> /\ ~p.isTerminated) =>
        \A f \in NamedPositionals(Head(p.tokens)) :
          /\ flagsSeen(p', f) = flagsSeen(p, f)
          /\ SetsOf(v'.log, f, "dispatch") = SetsOf(v.log, f, "dispatch")
    ]_vars

(***************************************************************************)
(* C30: a positional-shaped token met while no positional flag is left is  *)
(* a subcommand: the parser descends into the subcommand of that name,     *)
(* fails with "unrecognized command" when the command has subcommands but  *)
(* none of that name, and with "unexpected positional argument" when the   *)
(* command has no subcommands.                                             *)
(***************************************************************************)
\* the subcommands of command cmd that are named t
SubcommandsNamed(cmd, t) ==
  { Commands[cmd].Subcommands[i] : i \in 1..Len(Commands[cmd].Subcommands) }
    \cap { c \in CommandIds : Commands[c].Name = t }

\* the loop is about to dispatch a token that is neither the terminator
\* nor flag-shaped, with no positional flag left
AtSubcommandToken ==
  /\ pc = "loop"
  /\ p.tokens # <<>>
  /\ ~p.isTerminated
  /\ ~(Head(p.tokens) = terminator /\ Commands[p.cmd].WithTerminator)
  /\ isPositional(Head(p.tokens))
  /\ p.positionals = <<>>

C26_ConcurrentArgs ==
  \A i \in Calls :
    (calls[i].pc = "done" /\ calls[i].err = NoErr) =>
      calls[i].seen = calls[i].p.args

(***************************************************************************)
(* C31: bit fields that share one word do not disturb each other.  The     *)
(* constructor of a bit field makes the bits of its mask equal to its      *)
(* default and leaves every other bit of the word as it was; an occurrence *)
(* of the flag on the command line sets the bits of its mask and leaves    *)
(* every other bit as it was; no other step of Parse changes the word.     *)
(***************************************************************************)
\* a & b
RECURSIVE bitAnd(_, _)
bitAnd(a_, b_) ==
  IF a_ = 0 \/ b_ = 0 THEN 0
  ELSE (IF a_ % 2 = 1 /\ b_ % 2 = 1 THEN 1 ELSE 0)
         + 2 * bitAnd(a_ \div 2, b_ \div 2)

\* the bits of the word outside mask
Outside(w, mask) == w - bitAnd(w, mask)

\* the front token is an occurrence of bit field f
AtBitField(f) ==
  /\ pc = "loop"
  /\ p.tokens # <<>>
  /\ Head(p.tokens) = <<"-", "-">> \o Flags[f].Name

C31_BitFieldsShareWord ==
  [][ LET w == v.mem["bit.v"]
          w_ == v'.mem["bit.v"]
      IN  IF pc = "bitfield"
          THEN LET x == bitFieldValues[bitFieldOrder[constructed + 1]]
               IN  /\ bitAnd(w_, x.mask) = IF x.value THEN x.mask ELSE 0
                   /\ Outside(w_, x.mask) = Outside(w, x.mask)
          ELSE IF \E f \in DOMAIN bitFieldValues : AtBitField(f)
          THEN LET f == CHOOSE g \in DOMAIN bitFieldValues : AtBitField(g)
                   x == bitFieldValues[f]
               IN  /\ err' = NoErr
                   /\ bitAnd(w_, x.mask) = x.mask
                   /\ Outside(w_, x.mask) = Outside(w, x.mask)
          ELSE w_ = w
    ]_vars

\* TestBitField: the word is zero, the defaults false, false and true, and
\* --foo is given
C31_Witness ==
  /\ pc = "done"
  /\ argv = << <<"-", "-">> \o nFoo >>
  /\ err = NoErr
  /\ v.mem["bit.v"] = 5

(***************************************************************************)
(* C32: after a successful Parse the slice of a Strings flag holds exactly *)
(* the values of its occurrences, in the order of the command line, the    *)
(* default being discarded; a flag that did not occur keeps its default.   *)
(***************************************************************************)
\* the values Value.Set was called with for flag f, in order
SetValues(f) ==
  LET calls_ == SelectSeq(v.log, LAMBDA e : e.flag = f)
  IN  [ i \in 1..Len(calls_) |-> calls_[i].s ]

\* the arguments that follow an occurrence of --foo
RECURSIVE ValuesOfFoo(_)
ValuesOfFoo(args) ==
  IF Len(args) < 2 THEN <<>>
  ELSE IF Head(args) = <<"-", "-">> \o nFoo
  THEN << args[2] >> \o ValuesOfFoo(Tail(Tail(args)))
  ELSE ValuesOfFoo(Tail(args))

C32_StringsInOrder ==
  (pc = "done" /\ err = NoErr) =>
    /\ \A f \in TreeFlags :
         Flags[f].Value = "strings" =>
           v.mem[f].p = IF SetValues(f) = <<>> THEN stringSliceDefault(f)
                        ELSE SetValues(f)
    /\ root = "sl" =>
         v.mem["sl.foo"].p = IF ValuesOfFoo(argv) = <<>> THEN << nQux >>
                             ELSE ValuesOfFoo(argv)

\* TestStringSlice: --foo baz --foo qux on a slice with a default
C32_Witness ==
  /\ pc = "done"
  /\ err = NoErr
  /\ root = "sl"
  /\ argv = << <<"-", "-">> \o nFoo, nBaz, <<"-", "-">> \o nFoo, nQux >>
  /\ v.mem["sl.foo"].p = << nBaz, nQux >>

(***************************************************************************)
(* C33: a token that dispatch classifies is positional-shaped exactly when *)
(* it is empty, does not begin with a dash, or is the lone "-" or "--";    *)
(* a positional-shaped token is fed to the front positional flag or looked *)
(* up as a subcommand name, every other token is looked up as a flag name. *)
(***************************************************************************)
\* the front token reaches the classification of dispatch
AtClassified ==
  /\ pc = "loop"
  /\ p.tokens # <<>>
  /\ ~p.isTerminated
  /\ ~(Head(p.tokens) = terminator /\ Commands[p.cmd].WithTerminator)
  /\ Head(p.tokens) \notin { sHelpShort, sHelpLong }

PositionalShaped(t) ==
  t = <<>> \/ t[1] # "-" \/ t = <<"-">> \/ t = <<"-", "-">>

\* the step fed token t to the front positional flag, or looked it up as a
\* subcommand name
HandledAsPositional(t) ==
  IF p.positionals # <<>>
  THEN \/ err' # NoErr /\ err'.Flag = Head(p.positionals) /\ err'.Arg = t
       \/ /\ err' = NoErr
          /\ v'.log = Append(v.log, [ flag |-> Head(p.positionals), s |-> t,
                                      caller |-> "dispatch" ])
  ELSE \/ err' = NoErr /\ p'.cmd \in SubcommandsNamed(p.cmd, t)
       \/ err' = newArgErr(p.cmd, "nil", t, "unrecognized command")
       \/ err' = newArgErr(p.cmd, "nil", t, "unexpected positional argument")

\* the step looked token t up as a flag name
HandledAsFlag(t) ==
  IF t \in DOMAIN p.flagsByName
  THEN \/ err' # NoErr /\ err'.Flag = p.flagsByName[t]
       \/ /\ err' = NoErr
          /\ Len(v'.log) = Len(v.log) + 1
          /\ v'.log[Len(v'.log)].flag = p.flagsByName[t]
  ELSE err' = newArgErr(p.cmd, "nil", t, "unrecognized argument")

C33_Classification ==
  [][ AtClassified =>
        LET t == Head(p.tokens)
        IN  IF PositionalShaped(t) THEN HandledAsPositional(t)
            ELSE HandledAsFlag(t)
    ]_vars

\* the claim as it was stated: a token that begins with a dash is looked up
\* as a flag name
C33_DashIsFlagShaped ==
  [][ AtClassified =>
        LET t == Head(p.tokens)
        IN  IF t = <<>> \/ t[1] # "-" THEN HandledAsPositional(t)
            ELSE HandledAsFlag(t)
    ]_vars

\* the lone dash was fed to the first positional flag
C33_Witness ==
  /\ root = "pos"
  /\ argv # <<>>
  /\ argv[1] = <<"-">>
  /\ err = NoErr
  /\ v.mem["pos.foo"] = <<"-">>

(***************************************************************************)
(* C34: the scope of the parser changes only by descent.  The current      *)
(* command is the root or one of its descendants; a step that changes it   *)
(* moves to a direct subcommand of the current command, the one named by   *)
(* the token; and the names a later token can resolve as a command are     *)
(* those of the direct subcommands of the current command only.            *)
(***************************************************************************)
Children(cmd) ==
  { Commands[cmd].Subcommands[i] : i \in DOMAIN Commands[cmd].Subcommands }

Resolvable(c) == { c.subcommandsByName[n] : n \in DOMAIN c.subcommandsByName }

C34_ScopeDescends ==
  [][ /\ IsUnder(p'.cmd, root)
      /\ Resolvable(p') = Children(p'.cmd)
      /\ p'.cmd # p.cmd =>
           /\ p'.cmd \in Children(p.cmd)
           /\ Commands[p'.cmd].Parent = p.cmd
           /\ pc = "loop" /\ p.tokens # <<>>
           /\ Commands[p'.cmd].Name = Head(p.tokens)
    ]_vars

\* after the descent into x its sibling y is not resolved
C34_Witness ==
  /\ root = "fam"
  /\ argv = << <<"x">>, <<"y">> >>
  /\ p.cmd = "fam.x"
  /\ err = newArgErr("fam.x", "nil", <<"y">>, "unrecognized command")

(***************************************************************************)
(* C35: the handling of the terminator depends on the command resolved     *)
(* when "--" is dispatched, not on the root: every token that reaches      *)
(* dispatch while the parser is not terminated has been normalized, a raw  *)
(* --name=value or -xVALUE being split before the lookup.  The formula is  *)
(* the case the claim names: the current command does not enable           *)
(* terminator mode, whatever the root does.                                *)
(***************************************************************************)
C35_DispatchedNormalized ==
  ( /\ pc = "loop"
    /\ p.tokens # <<>>
    /\ ~p.isTerminated
    /\ ~Commands[p.cmd].WithTerminator ) =>
    normalizeArg(Head(p.tokens)) = << Head(p.tokens) >>

(***************************************************************************)
(* C36: Parse terminates.  An iteration of the loop removes the front      *)
(* token, and the token after it when a flag takes it as its value, and    *)
(* adds none, so that the loop runs at most once for each normalized       *)
(* token; the environment fallback and the arity check then run once each  *)
(* and the call returns.                                                   *)
(***************************************************************************)
\* s is what is left of t after its first n elements
IsRestOf(s, t, n) == n <= Len(t) /\ s = SubSeq(t, n + 1, Len(t))

C36_Terminates ==
  /\ <>(pc = "done")
  /\ [][ IF pc = "loop" /\ p.tokens # <<>>
         THEN /\ \/ IsRestOf(p'.tokens, p.tokens, 1)
                 \/ /\ IsRestOf(p'.tokens, p.tokens, 2)
                    /\ Head(p.tokens) \in DOMAIN p.flagsByName
                    /\ ~isBoolValue(p.flagsByName[Head(p.tokens)])
              /\ pc' \in { "loop", "return" }
         ELSE /\ p'.tokens = p.tokens
              /\ pc = "loop" => pc' \in { "check", "return" }
              /\ pc = "check" => pc' = "return"
              /\ pc = "return" => pc' = "done"
     ]_vars

\* a call that took two tokens in one iteration has returned
C36_Witness ==
  /\ pc = "done"
  /\ root = "req"
  /\ argv = << <<"-", "-">> \o nFoo, <<"x">>, <<"-", "-">> \o nBar >>
  /\ err = NoErr
  /\ ret = "req"

(***************************************************************************)
(* C37: while the current command enables terminator mode, "--" is never   *)
(* bound as a value: every "--" that an iteration of the loop takes from   *)
(* the tokens before termination terminates the parser, also the "--"      *)
(* that follows a non-boolean flag awaiting its value.                     *)
(***************************************************************************)
\* the tokens the step takes from the front of the token list
Taken == SubSeq(p.tokens, 1, Len(p.tokens) - Len(p'.tokens))

C37_TerminatorNeverValue ==
  [][ ( /\ pc = "loop"
        /\ p.tokens # <<>>
        /\ ~p.isTerminated
        /\ Commands[p.cmd].WithTerminator
        /\ \E i \in DOMAIN Taken : Taken[i] = terminator ) =>
        /\ p'.isTerminated
        /\ v' = v
    ]_vars

(***************************************************************************)
(* C38: a short name is matched only by a single dash and a long name only *)
(* by two dashes.  The flag that a flag-shaped token makes the parser act  *)
(* on has that token as "--" and its long name or as "-" and its short     *)
(* name; --c does not resolve a flag whose only name is the short name c,  *)
(* and -name, normalized to -n and ame, does not resolve the flag whose    *)
(* long name is name.                                                      *)
(***************************************************************************)
NamedBy(t, f) ==
  \/ Flags[f].Name # <<>> /\ t = <<"-", "-">> \o Flags[f].Name
  \/ Flags[f].ShortName # <<>> /\ t = <<"-">> \o Flags[f].ShortName

\* the step acted on flag f: it called Set of f or failed on f
ActedOn(f) ==
  \/ err' # NoErr /\ err'.Flag = f
  \/ Len(v'.log) = Len(v.log) + 1 /\ v'.log[Len(v'.log)].flag = f

\* the elements of a sequence
Elems(s) == { s[i] : i \in DOMAIN s }

C38_NameForms ==
  [][ /\ (AtClassified /\ ~PositionalShaped(Head(p.tokens))) =>
           \A f \in FlagIds : ActedOn(f) => NamedBy(Head(p.tokens), f)
      /\ (root = "sn" /\ v'.mem["sn.c"]) => <<"-", "c">> \in Elems(argv)
      /\ (root = "sn" /\ v'.mem["sn.name"]) =>
           (<<"-", "-">> \o nName) \in Elems(argv)
    ]_vars

\* --c and -name were refused, -c and --name taken
C38_Witness ==
  /\ root = "sn"
  /\ pc = "done"
  /\ argv = << <<"-", "c">>, <<"-", "-">> \o nName, <<"-", "-", "c">> >>
  /\ v.mem["sn.c"] /\ v.mem["sn.name"]
  /\ err = newArgErr("sn", "nil", <<"-", "-", "c">>, "unrecognized argument")

(***************************************************************************)
(* C39: a positional flag with MaxCount = k > 0 is given at most k values, *)
(* and the step that feeds it a positional token removes it from the queue *)
(* of positional flags exactly when that token is its k-th value, whatever *)
(* other flags occurred, a flag of an ancestor with the same name          *)
(* included.                                                               *)
(***************************************************************************)
\* the number of values dispatch has given to flag f in log
Fed(log, f) == Len(SetsOf(log, f, "dispatch"))

BoundedPositionals ==
  { f \in TreeFlags : Flags[f].Positional /\ Flags[f].MaxCount > 0 }

C39_BoundedPositional ==
  [][ /\ \A f \in BoundedPositionals : Fed(v'.log, f) <= Flags[f].MaxCount
      /\ ( /\ AtClassified
           /\ PositionalShaped(Head(p.tokens))
           /\ p.positionals # <<>>
           /\ Head(p.positionals) \in BoundedPositionals
           /\ err' = NoErr ) =>
           LET f == Head(p.positionals)
           IN  p'.positionals =
                 IF Fed(v'.log, f) = Flags[f].MaxCount
                 THEN Tail(p.positionals) ELSE p.positionals
    ]_vars

(***************************************************************************)
(* C40: parsing is repeatable.  A second Parse of the same arguments on    *)
(* the same command tree under the same environment returns what the first *)
(* returned and leaves every bound variable, the slices of Strings flags   *)
(* included, as the first Parse left it.  The formula is the case of a     *)
(* first Parse that succeeded.                                             *)
(***************************************************************************)
C40_Repeatable ==
  (pc = "done" /\ calls[1].pc = "done" /\ calls[1].err = NoErr) =>
    /\ ret = calls[1].ret
    /\ err = calls[1].err
    /\ \A f \in DOMAIN v.mem :
         v.mem[f] = calls[1].v.mem[f]

=============================================================================
